---- MODULE Spec2Model ----
(***************************************************************************)
(* A model of the Microsoft Planner client of HA_Planner                   *)
(* (custom_components/planner/planner_api.py).                             *)
(*                                                                         *)
(* The client is sequential code over one shared field, access_token.      *)
(* Each action below is one step of that code: one call of authenticate(), *)
(* one HTTP request with the handling of its response, or the code that    *)
(* runs between two requests of an operation.  The Graph server and the    *)
(* identity provider are the environment: every response (status, body,    *)
(* transport failure) and every outcome of a token acquisition is chosen   *)
(* nondeterministically from small sets.                                   *)
(*                                                                         *)
(* Python values: None is the empty sequence and a present value v is      *)
(* <<v>> (Some(v)); text that the code strips or lower-cases is a sequence *)
(* of one-character strings; access_token is 0 for None and a positive     *)
(* number for a token, each successful acquisition giving a new number.    *)
(***************************************************************************)
EXTENDS Integers, Sequences, FiniteSets, TLC

\* Tokens the identity provider hands out in one behaviour.
MaxTok == 3

\* Tasks in a plan's task listing.
MaxTasks == 2

----------------------------------------------------------------------------
(* Python values *)

None == <<>>
Some(v) == <<v>>
IsNone(o) == o = <<>>
Val(o) == o[1]

Max(a, b) == IF a >= b THEN a ELSE b
Min(a, b) == IF a <= b THEN a ELSE b

RECURSIVE SeqToSet(_)
SeqToSet(s) == IF s = <<>> THEN {} ELSE {Head(s)} \cup SeqToSet(Tail(s))

Whitespace == {" ", "\t"}

RECURSIVE LStrip(_)
LStrip(s) == IF s # <<>> /\ Head(s) \in Whitespace THEN LStrip(Tail(s)) ELSE s

RECURSIVE RStrip(_)
RStrip(s) ==
    IF s # <<>> /\ s[Len(s)] \in Whitespace
    THEN RStrip(SubSeq(s, 1, Len(s) - 1))
    ELSE s

\* str.strip()
Strip(s) == RStrip(LStrip(s))

\* str.lower() on the characters of the model's texts
LowerChar(c) ==
    CASE c = "A" -> "a"
      [] c = "B" -> "b"
      [] OTHER -> c
Lower(s) == [i \in 1..Len(s) |-> LowerChar(s[i])]

\* Mutation of StripOpt: the value is not stripped.
NotStripped(o) == IF IsNone(o) THEN <<>> ELSE Val(o)

\* (value or "").strip() for an optional text
StripOpt(o) == IF IsNone(o) THEN <<>> ELSE Strip(Val(o))

----------------------------------------------------------------------------
VARIABLES
    access_token,   \* PlannerAPI.access_token: 0 is None
    issued,         \* tokens the identity provider has handed out so far
    op,             \* the public operation in progress ("idle" when none)
    pc,             \* its position
    args,           \* its arguments
    loc,            \* its local variables
    result,         \* what it returned (or that it raised)
    ex,             \* the HTTP request in progress: _get_headers, send, 401 retry
    gu,             \* the frame of get_user_id_by_name
    pl,             \* the frame of get_plan_by_name (list_all_plans, list_all_groups);
                    \* failed: the listings ("groups", "plans") whose failure it has logged
    ret,            \* what the innermost finished call returned or raised
    tr,             \* events of the logical request whose outcome ret holds (or that is in
                    \* progress): authenticate() calls and sends; empty once a helper returned
    hist,           \* the requests the operation itself sent to /planner/tasks
    netUsed,        \* whether the operation has called the identity provider or the server
    server,         \* the Graph server: any answer to any request (mode "any"), fixed
                    \* groups, plans and buckets (mode "stable"), or a task whose ETag
                    \* changes with every accepted write (mode "task")
    prev,           \* the arguments and results of the calls that have returned before
    wr,             \* the calls of update_task and delete_task that run concurrently
    hd              \* the Home Assistant handler in progress (a service handler or an
                    \* operation of the todo entity) and the refreshes it has requested

vars == <<access_token, issued, op, pc, args, loc, result, ex, gu, pl, ret, tr, hist, netUsed,
          server, prev, wr, hd>>

----------------------------------------------------------------------------
(* The environment: the Graph server's answers *)

\* What a request can be addressed to.
TaskUrl == [kind |-> "task"]                     \* planner/tasks/{task_id}
NewTaskUrl == [kind |-> "newtask"]               \* planner/tasks (POST)
GroupsUrl == [kind |-> "groups"]                 \* groups
PlansUrl(g) == [kind |-> "plans", group |-> g]   \* groups/{group_id}/planner/plans
TasksUrl(p) == [kind |-> "tasks", plan |-> p]    \* planner/plans/{plan_id}/tasks
BucketsUrl(p) == [kind |-> "buckets", plan |-> p]  \* planner/plans/{plan_id}/buckets
UserUrl(key) == [kind |-> "user", key |-> key]   \* users/{key}
FilterUrl(i, v) == [kind |-> "filter", i |-> i, value |-> v]  \* users?$filter=<i-th expression>

NoBody == [none |-> TRUE]

\* ETags a task read can carry (0: the header, or the body field, is absent or empty).
ETags == {0, 1, 2}

\* User IDs the server knows.
UserIds == {"X", "Y", "Z"}

\* The assignments of a task as the server returns them: user ID -> marker, in the
\* order of the JSON object's keys.  assigned = FALSE is a null entry.
Asg(u, a) == [uid |-> u, assigned |-> a]
AssignmentMaps == {
    <<>>,
    <<Asg("X", TRUE), Asg("Y", TRUE)>>,
    <<Asg("Z", TRUE)>> }

\* The body of a successful GET planner/tasks/{id}; h is the ETag response header and
\* b the body's @odata.etag.
TaskBodies == [h : ETags \ {2}, b : ETags \ {1}, assignments : AssignmentMaps]

\* The body of a successful GET users/{key}: a user object, with or without a
\* displayName, or an empty object.
UserBodies ==
    { [nonempty |-> TRUE, id |-> Some("X"), displayName |-> Some("Xavier")],
      [nonempty |-> TRUE, id |-> Some("Z"), displayName |-> None],
      [nonempty |-> FALSE, id |-> None, displayName |-> None] }

\* The "value" list (user IDs) of a successful GET users?$filter=...
FilterBodies == {<<>>, <<"Z">>, <<"X", "Z">>}

\* Groups and plans of the tenant.  Two plans share the title "Home", one differs from
\* it by case only.
Group(i, n) == [id |-> i, displayName |-> n]
Plan(i, t) == [id |-> i, title |-> t]
GroupLists == {<<>>, <<Group("g1", "Family")>>, <<Group("g1", "Family"), Group("g2", "Office")>>}
PlanLists == {<<>>, <<Plan("p1", "home"), Plan("p2", "Home")>>, <<Plan("p3", "Home")>>}

\* Tasks of a plan as the server lists them; pct = None: the task has no
\* percentComplete key.
Task(i, p, a) == [id |-> i, pct |-> p, assignments |-> a]
TaskPool == {
    Task("t1", Some(0), <<Asg("X", TRUE)>>),
    Task("t2", Some(100), <<Asg("X", TRUE)>>),
    Task("t3", None, <<Asg("Y", FALSE), Asg("X", TRUE), Asg("Z", TRUE)>>),
    Task("t4", Some(99), <<>>),
    Task("t5", Some(150), <<>>) }
TaskLists == UNION {[1..n -> TaskPool] : n \in 0..MaxTasks}

\* Buckets of a plan as the server lists them.  The name of the first differs by case
\* only from the ID of the second.
Bucket(i, n) == [id |-> i, name |-> n]
BucketA == Bucket(Some(<<"a">>), Some(<<"B">>))
BucketB == Bucket(Some(<<"b">>), Some(<<"c", " ">>))
BucketLists == {<<>>, <<BucketA, BucketB>>, <<BucketB, BucketA>>}

\* A successful status per method.
OkStatus(m) ==
    CASE m = "GET" -> 200
      [] m = "POST" -> 201
      [] OTHER -> 204

\* The statuses the server answers a request with.
Statuses(m) == {OkStatus(m), 401, 404, 412}

IsOk(st) == st >= 200 /\ st < 300

\* The bodies of a 2xx answer.
OkBodies(m, t) ==
    CASE m = "GET" /\ t.kind = "task" -> TaskBodies
      [] m = "GET" /\ t.kind = "groups" -> {[value |-> g] : g \in GroupLists}
      [] m = "GET" /\ t.kind = "plans" -> {[value |-> l] : l \in PlanLists}
      [] m = "GET" /\ t.kind = "tasks" -> {[value |-> l] : l \in TaskLists}
      [] m = "GET" /\ t.kind = "buckets" -> {[value |-> l] : l \in BucketLists}
      [] m = "GET" /\ t.kind = "user" -> UserBodies
      [] m = "GET" /\ t.kind = "filter" -> FilterBodies
      [] m = "POST" -> {[id |-> "T1"]}
      [] OTHER -> {NoBody}

\* The ETags a response carries: <<header, body field>>, 0 for none.
ResponseETags(r) == IF "h" \in DOMAIN r.body THEN <<r.body.h, r.body.b>> ELSE <<0, 0>>

\* Every way a request can end: a response, or no response at all (connection error,
\* timeout).
Responses(m, t) ==
    {[net |-> "ok", st |-> st, body |-> NoBody] : st \in Statuses(m) \ {OkStatus(m)}}
    \cup {[net |-> "ok", st |-> OkStatus(m), body |-> b] : b \in OkBodies(m, t)}
    \cup {[net |-> "fail", st |-> 0, body |-> NoBody]}

\* A server of which nothing is assumed.
AnyServer == [mode |-> "any"]

\* A server whose groups, plans and buckets do not change: each listing is always
\* answered with the same list, or always refused.  The buckets are those of every
\* plan.
Listing(l) == [ok |-> TRUE, value |-> l]
Refusal == [ok |-> FALSE, value |-> <<>>]
StableServers ==
    [ mode : {"stable"},
      groups : {Listing(l) : l \in GroupLists} \cup {Refusal},
      plans : [{"g1", "g2"} -> {Listing(l) : l \in PlanLists} \cup {Refusal}],
      buckets : {Listing(l) : l \in BucketLists} \cup {Refusal} ]

\* Its answer to a listing request.
StableAnswer(srv, m, t) ==
    LET l == CASE t.kind = "groups" -> srv.groups
               [] t.kind = "plans" -> srv.plans[t.group]
               [] OTHER -> srv.buckets
    IN IF l.ok
       THEN [net |-> "ok", st |-> OkStatus(m), body |-> [value |-> l.value]]
       ELSE [net |-> "ok", st |-> 404, body |-> NoBody]

\* The answers of the server to a request.  The stable server may find the token of a
\* first attempt expired (401) while the identity provider can still issue a new one,
\* and accepts a token acquired for the retry.
ServerResponses(srv, m, t, retry_auth, n_issued) ==
    IF srv.mode = "any"
    THEN Responses(m, t)
    ELSE {StableAnswer(srv, m, t)}
         \cup (IF retry_auth /\ n_issued < MaxTok
                THEN {[net |-> "ok", st |-> 401, body |-> NoBody]}
                ELSE {})

\* No concurrent calls.
NoWriters == <<>>

----------------------------------------------------------------------------
(* Calls: what a finished call hands to its caller *)

NoRet == [k |-> "none"]
Returned(v) == [k |-> "ok", val |-> v]
\* x: "HTTPError" (raise_for_status), "AuthError" (authenticate), "Transport"
Raised(x, st) == [k |-> "exc", x |-> x, st |-> st]

IdleEx == [pc |-> "idle"]
IdleGu == [pc |-> "idle", log |-> <<>>]
IdlePl == [pc |-> "idle", failed |-> {}]
\* no handler of Home Assistant is running
IdleHd == [name |-> "idle", pc |-> "idle", refreshes |-> 0]

AuthEv(ok, why) ==
    [e |-> "auth", ok |-> ok, why |-> why, m |-> "", tok |-> 0, ifm |-> 0, st |-> 0]
SendEv(m, tok, ifm, st) ==
    [e |-> "send", ok |-> IsOk(st), why |-> "", m |-> m, tok |-> tok, ifm |-> ifm, st |-> st]

Sends(t) == SelectSeq(t, LAMBDA ev : ev.e = "send")
Auths(t) == SelectSeq(t, LAMBDA ev : ev.e = "auth")
ReAuths(t) == SelectSeq(t, LAMBDA ev : ev.e = "auth" /\ ev.why = "401")

----------------------------------------------------------------------------
(* authenticate() and _get_headers() *)

\* The token a successful acquisition stores: one the provider never issued before.
NewToken(n) == n + 1

\* authenticate(): the provider answers with an access_token, which is stored, or with
\* an error, and authenticate raises.
AuthSucceeds ==
    /\ issued < MaxTok
    /\ access_token' = NewToken(issued)
    /\ issued' = issued + 1

\* (beside a stable server the identity provider does not refuse)
AuthFails ==
    /\ server.mode # "stable"
    /\ UNCHANGED <<access_token, issued>>

\* Mutation of HeaderToken: the header built before the last authenticate() is sent.
EarlierToken(tok) == IF tok > 1 THEN tok - 1 ELSE tok

\* The Authorization header carries the cached token.
HeaderToken(tok) == tok

\* Mutation of ShouldRetry: any error status is retried once.
RetryAnyError(st, retry_auth) == st >= 400 /\ retry_auth

\* Mutation of ShouldRetry: a 412 is retried like a 401.
RetryOn412(st, retry_auth) == st \in {401, 412} /\ retry_auth

\* Mutation of ShouldRetry: a 404 is retried like a 401.
RetryOn404(st, retry_auth) == st \in {401, 404} /\ retry_auth

\* Mutation of ShouldRetry: a 401 is never retried.
NeverRetry(st, retry_auth) == FALSE

\* Mutation of ShouldRetry: every 401 is retried.
RetryEvery401(st, retry_auth) == st = 401

\* if response.status_code == 401 and retry_auth
ShouldRetry(st, retry_auth) == st = 401 /\ retry_auth

\* Mutation of DiscardToken: the rejected token stays cached.
KeepToken(tok) == tok

\* self.access_token = None, before authenticate() is called again
DiscardToken(tok) == 0

\* Mutation of RaiseForStatus: 412 Precondition Failed does not raise.
RaiseButNot412(st) == st >= 400 /\ st < 600 /\ st # 412

\* response.raise_for_status()
RaiseForStatus(st) == st >= 400 /\ st < 600

\* A logical request begins: requests.<method>(url, headers=self._get_headers(), ...),
\* with an If-Match header (0: none) and a JSON body (NoBody: none).
\* via is "_make_request" or "inline" (the copies of the retry in create_task, update_task
\* and delete_task).
StartExchange(m, t, ifm, json, via) ==
    /\ ex' = [pc |-> "hdr", m |-> m, t |-> t, ifm |-> ifm, json |-> json,
              retry_auth |-> TRUE, via |-> via]
    /\ tr' = <<>>
    /\ ret' = NoRet

\* _get_headers with no cached token: authenticate() first.
ExAuthenticate ==
    /\ ex.pc = "hdr"
    /\ access_token = 0
    /\ netUsed' = TRUE
    /\ \/ /\ AuthSucceeds
          /\ tr' = Append(tr, AuthEv(TRUE, "hdr"))
          /\ UNCHANGED <<ex, ret>>
       \/ /\ AuthFails
          /\ tr' = Append(tr, AuthEv(FALSE, "hdr"))
          /\ ex' = IdleEx
          /\ ret' = Raised("AuthError", 0)
    /\ UNCHANGED <<op, pc, args, loc, result, gu, pl, hist>>
    /\ UNCHANGED <<server, prev, wr, hd>>

\* The request is sent with the cached token and its response handled: a 401 on the
\* first attempt discards the token, any other 4xx/5xx raises, a 2xx returns the body.
ExSend ==
    /\ ex.pc = "hdr"
    /\ access_token # 0
    /\ \E r \in ServerResponses(server, ex.m, ex.t, ex.retry_auth, issued) :
         LET ev == SendEv(ex.m, HeaderToken(access_token), ex.ifm, r.st) IN
         /\ tr' = Append(tr, ev)
         /\ hist' = IF ex.via = "inline"
                    THEN Append(hist, [m |-> ex.m, ifm |-> ex.ifm, json |-> ex.json,
                                       st |-> r.st, net |-> r.net,
                                       etags |-> ResponseETags(r)])
                    ELSE hist
         /\ IF r.net = "fail"
            THEN /\ ex' = IdleEx
                 /\ ret' = Raised("Transport", 0)
                 /\ UNCHANGED access_token
            ELSE IF ShouldRetry(r.st, ex.retry_auth)
            THEN /\ access_token' = DiscardToken(access_token)
                 /\ ex' = [ex EXCEPT !.pc = "reauth"]
                 /\ UNCHANGED ret
            ELSE IF RaiseForStatus(r.st)
            THEN /\ ex' = IdleEx
                 /\ ret' = Raised("HTTPError", r.st)
                 /\ UNCHANGED access_token
            ELSE /\ ex' = IdleEx
                 /\ ret' = Returned(r.body)
                 /\ UNCHANGED access_token
    /\ netUsed' = TRUE
    /\ UNCHANGED <<issued, op, pc, args, loc, result, gu, pl>>
    /\ UNCHANGED <<server, prev, wr, hd>>

\* After the 401: authenticate(), then the one retry (retry_auth = False).
ExReauth ==
    /\ ex.pc = "reauth"
    /\ \/ /\ AuthSucceeds
          /\ tr' = Append(tr, AuthEv(TRUE, "401"))
          /\ ex' = [ex EXCEPT !.pc = "hdr", !.retry_auth = FALSE]
          /\ UNCHANGED ret
       \/ /\ AuthFails
          /\ tr' = Append(tr, AuthEv(FALSE, "401"))
          /\ ex' = IdleEx
          /\ ret' = Raised("AuthError", 0)
    /\ UNCHANGED <<op, pc, args, loc, result, gu, pl, hist, netUsed>>
    /\ UNCHANGED <<server, prev, wr, hd>>

\* No call is in progress below the operation.
AtOp(o, p) == op = o /\ pc = p /\ ex.pc = "idle" /\ gu.pc = "idle" /\ pl.pc = "idle"

NoArgs == [none |-> TRUE]
NoLoc == [none |-> TRUE]
NoResult == [k |-> "none"]
\* an operation returned the dictionary d
Result(d) == [k |-> "ok", val |-> d]
\* an operation raised
ResultRaised(r) == [k |-> "exc", x |-> r.x, st |-> r.st]

\* str(err) / f"HTTP error: {err}" of the except clauses of the write operations
ErrorText(r) == IF r.x = "HTTPError" THEN "HTTP error" ELSE "error"

Failure(e) == [success |-> FALSE, error |-> e]

\* Whether a try statement with these except clauses catches exception x: every
\* exception of the model is an Exception.
Catches(clauses, x) == "Exception" \in clauses \/ x \in clauses

\* The try statement of a write operation left by exception r: its except clauses
\* return a failure, an exception they do not catch goes on to the caller.
Handled(clauses, r) ==
    IF Catches(clauses, r.x) THEN Result(Failure(ErrorText(r))) ELSE ResultRaised(r)

----------------------------------------------------------------------------
(* _make_request, called on its own *)

MakeRequestStart ==
    /\ AtOp("idle", "idle")
    /\ op' = "_make_request"
    /\ pc' = "wait"
    /\ StartExchange("GET", PlansUrl("g1"), 0, NoBody, "_make_request")
    /\ UNCHANGED <<access_token, issued, args, loc, result, gu, pl, hist, netUsed>>
    /\ UNCHANGED <<server, prev, wr, hd>>

MakeRequestDone ==
    /\ AtOp("_make_request", "wait")
    /\ pc' = "done"
    /\ result' = IF ret.k = "ok" THEN Result(ret.val) ELSE ResultRaised(ret)
    /\ UNCHANGED <<access_token, issued, op, args, loc, ex, gu, pl, ret, tr, hist, netUsed>>
    /\ UNCHANGED <<server, prev, wr, hd>>

----------------------------------------------------------------------------
(* delete_task *)

\* get_response.headers.get("ETag") or get_response.json().get("@odata.etag")
ETagOf(body) == IF body.h # 0 THEN body.h ELSE body.b

\* Mutation of ETagMissing: the check is skipped.
ETagNeverMissing(etag) == FALSE

\* if not etag
ETagMissing(etag) == etag = 0

\* Mutation of IfMatch: the header is not set.
NoIfMatch(etag) == 0

\* headers["If-Match"] = etag
IfMatch(etag) == etag

\* except requests.exceptions.HTTPError / except Exception
DeleteTaskClauses == {"HTTPError", "Exception"}

\* delete_task is called.
DeleteBegin ==
    /\ op' = "delete_task"
    /\ pc' = "get"
    /\ StartExchange("GET", TaskUrl, 0, NoBody, "inline")

DeleteStart ==
    /\ AtOp("idle", "idle")
    /\ DeleteBegin
    /\ UNCHANGED <<access_token, issued, args, loc, result, gu, pl, hist, netUsed>>
    /\ UNCHANGED <<server, prev, wr, hd>>

\* After the read: no ETag is a failure, otherwise the conditional DELETE is sent.
DeleteAfterGet ==
    /\ AtOp("delete_task", "get")
    /\ IF ret.k = "exc"
       THEN /\ pc' = "done"
            /\ result' = Handled(DeleteTaskClauses, ret)
            /\ UNCHANGED <<ex, ret, tr, loc>>
       ELSE LET etag == ETagOf(ret.val) IN
            IF ETagMissing(etag)
            THEN /\ pc' = "done"
                 /\ result' = Result(Failure("Task ETag missing; cannot delete"))
                 /\ UNCHANGED <<ex, ret, tr, loc>>
            ELSE /\ pc' = "delete"
                 /\ loc' = [etag |-> etag]
                 /\ StartExchange("DELETE", TaskUrl, IfMatch(etag), NoBody, "inline")
                 /\ UNCHANGED result
    /\ UNCHANGED <<access_token, issued, op, args, gu, pl, hist, netUsed>>
    /\ UNCHANGED <<server, prev, wr, hd>>

DeleteAfterDelete ==
    /\ AtOp("delete_task", "delete")
    /\ pc' = "done"
    /\ result' = IF ret.k = "exc"
                 THEN Handled(DeleteTaskClauses, ret)
                 ELSE Result([success |-> TRUE])
    /\ UNCHANGED <<access_token, issued, op, args, loc, ex, gu, pl, ret, tr, hist, netUsed>>
    /\ UNCHANGED <<server, prev, wr, hd>>

----------------------------------------------------------------------------
(* get_plan_by_name, list_all_plans, list_all_groups *)

\* Mutation of ListAllGroupsClauses: only the first except clause.
OnlyHTTPErrorClause == {"HTTPError"}

\* except requests.exceptions.HTTPError / except Exception, of list_all_groups
ListAllGroupsClauses == {"HTTPError", "Exception"}
\* the same two clauses around each group's plan listing in list_all_plans
ListAllPlansClauses == {"HTTPError", "Exception"}

RECURSIVE TagPlans(_, _)
\* plan["group_name"] = group.get("displayName")
TagPlans(plans, group) ==
    IF plans = <<>> THEN <<>>
    ELSE <<[id |-> Head(plans).id, title |-> Head(plans).title,
            group_name |-> group.displayName]>> \o TagPlans(Tail(plans), group)

\* Mutation of TitleMatches: the case of the first letter is ignored.
TitleMatchesAnyCase(plan_title, plan_name) ==
    plan_title = plan_name \/ (plan_title = "home" /\ plan_name = "Home")

\* if plan_title == plan_name
TitleMatches(plan_title, plan_name) == plan_title = plan_name

RECURSIVE FirstPlan(_, _)
\* for plan in all_plans: if plan.get("title", "") == plan_name: return plan
FirstPlan(all_plans, plan_name) ==
    IF all_plans = <<>> THEN None
    ELSE IF TitleMatches(Head(all_plans).title, plan_name) THEN Some(Head(all_plans))
    ELSE FirstPlan(Tail(all_plans), plan_name)

\* The call: list_all_plans begins with list_all_groups, which requests "groups".
CallGetPlanByName(plan_name) ==
    /\ pl' = [pc |-> "groups", fn |-> "get_plan_by_name", plan_name |-> plan_name,
              groups |-> <<>>, gi |-> 0, all_plans |-> <<>>, failed |-> {}]
    /\ StartExchange("GET", GroupsUrl, 0, NoBody, "_make_request")

\* list_all_plans called on its own: the same listing, returning all_plans.
CallListAllPlans ==
    /\ pl' = [pc |-> "groups", fn |-> "list_all_plans", plan_name |-> "",
              groups |-> <<>>, gi |-> 0, all_plans |-> <<>>, failed |-> {}]
    /\ StartExchange("GET", GroupsUrl, 0, NoBody, "_make_request")

\* list_all_plans goes on with group gi of groups, or, after the last group,
\* get_plan_by_name searches all_plans and returns.
PlNextGroup(groups, gi, all_plans, failed) ==
    IF gi <= Len(groups)
    THEN /\ pl' = [pl EXCEPT !.pc = "plans", !.groups = groups, !.gi = gi,
                             !.all_plans = all_plans, !.failed = failed]
         /\ StartExchange("GET", PlansUrl(groups[gi].id), 0, NoBody, "_make_request")
    ELSE /\ pl' = [pc |-> "idle", failed |-> failed]
         /\ ret' = IF pl.fn = "get_plan_by_name"
                   THEN Returned(FirstPlan(all_plans, pl.plan_name))
                   ELSE Returned(all_plans)
         /\ tr' = <<>>
         /\ UNCHANGED ex

\* After "groups": the listed groups, or no group when the listing failed.
PlAfterGroups ==
    /\ pl.pc = "groups"
    /\ ex.pc = "idle"
    /\ IF ret.k = "ok"
       THEN PlNextGroup(ret.val.value, 1, <<>>, {})
       ELSE IF Catches(ListAllGroupsClauses, ret.x)
       THEN PlNextGroup(<<>>, 1, <<>>, {"groups"})
       ELSE /\ pl' = [pc |-> "idle", failed |-> {"groups"}]
            /\ UNCHANGED <<ex, tr, ret>>
    /\ UNCHANGED <<access_token, issued, op, pc, args, loc, result, gu, hist, netUsed>>
    /\ UNCHANGED <<server, prev, wr, hd>>

\* After a group's plan listing: its plans join all_plans; a failed listing is skipped.
PlAfterPlans ==
    /\ pl.pc = "plans"
    /\ ex.pc = "idle"
    /\ IF ret.k = "ok"
       THEN PlNextGroup(pl.groups, pl.gi + 1,
                        pl.all_plans \o TagPlans(ret.val.value, pl.groups[pl.gi]),
                        pl.failed)
       ELSE IF Catches(ListAllPlansClauses, ret.x)
       THEN PlNextGroup(pl.groups, pl.gi + 1, pl.all_plans, pl.failed \cup {"plans"})
       ELSE /\ pl' = [pc |-> "idle", failed |-> pl.failed \cup {"plans"}]
            /\ UNCHANGED <<ex, tr, ret>>
    /\ UNCHANGED <<access_token, issued, op, pc, args, loc, result, gu, hist, netUsed>>
    /\ UNCHANGED <<server, prev, wr, hd>>

GetPlan == PlAfterGroups \/ PlAfterPlans

----------------------------------------------------------------------------
(* get_user_id_by_name *)

RECURSIVE FlatMap(_, _)
FlatMap(f(_), s) == IF s = <<>> THEN <<>> ELSE f(Head(s)) \o FlatMap(f, Tail(s))

\* urllib.parse.quote on the characters of the model's names
QuoteChar(c) ==
    CASE c = " " -> <<"%", "2", "0">>
      [] c = "'" -> <<"%", "2", "7">>
      [] c = "%" -> <<"%", "2", "5">>
      [] OTHER -> <<c>>
Quote(s) == FlatMap(QuoteChar, s)

\* _escape_odata_string: value.replace("'", "''")
EscapeChar(c) == IF c = "'" THEN <<"'", "'">> ELSE <<c>>
EscapeODataString(s) == FlatMap(EscapeChar, s)

\* Mutation of FilterExpressions: the display name is tried before the mail nickname.
DisplayNameBeforeNickname ==
    << "userPrincipalName eq", "mail eq", "displayName eq", "mailNickname eq",
       "startswith(mailNickname" >>

\* The filter expressions, in the order they are tried.
FilterExpressions ==
    << "userPrincipalName eq", "mail eq", "mailNickname eq", "displayName eq",
       "startswith(mailNickname" >>

\* The call: an empty identifier returns None at once, otherwise the direct lookup
\* users/{quote(identifier)} is sent.
CallGetUserIdByName(display_name) ==
    LET identifier == Strip(display_name) IN
    IF identifier = <<>>
    THEN /\ gu' = IdleGu
         /\ ret' = Returned(None)
         /\ tr' = <<>>
         /\ UNCHANGED ex
    ELSE /\ gu' = [pc |-> "direct", identifier |-> identifier, i |-> 0, log |-> <<>>]
         /\ StartExchange("GET", UserUrl(Quote(identifier)), 0, NoBody, "_make_request")

\* What a lookup gave: a user ("match"), nothing ("empty"), or an exception ("error").
Lookup(strategy, r, found) ==
    [strategy |-> strategy,
     ans |-> IF r.k = "exc" THEN "error" ELSE IF found THEN "match" ELSE "empty"]

\* get_user_id_by_name has returned; log: the lookups it made, in order.
GuReturned(log) == [pc |-> "idle", log |-> log]

\* The i-th filter lookup is sent.
GuTryFilter(i, log) ==
    /\ gu' = [gu EXCEPT !.pc = "filter", !.i = i, !.log = log]
    /\ StartExchange("GET", FilterUrl(i, EscapeODataString(gu.identifier)), 0, NoBody, "_make_request")

\* After the direct lookup: a non-empty answer returns its "id"; an empty answer or any
\* exception goes on to the filters.
GuAfterDirect ==
    /\ gu.pc = "direct"
    /\ ex.pc = "idle"
    /\ IF ret.k = "ok" /\ ret.val.nonempty
       THEN /\ gu' = GuReturned(<<Lookup("direct", ret, TRUE)>>)
            /\ ret' = Returned(ret.val.id)
            /\ tr' = <<>>
            /\ UNCHANGED ex
       ELSE GuTryFilter(1, <<Lookup("direct", ret, FALSE)>>)
    /\ UNCHANGED <<access_token, issued, op, pc, args, loc, result, pl, hist, netUsed>>
    /\ UNCHANGED <<server, prev, wr, hd>>

\* After a filter lookup: the first user of a non-empty list is returned; an empty list
\* or any exception goes on to the next filter, and after the last one None is returned.
GuAfterFilter ==
    /\ gu.pc = "filter"
    /\ ex.pc = "idle"
    /\ IF ret.k = "ok" /\ ret.val # <<>>
       THEN /\ gu' = GuReturned(Append(gu.log, Lookup(FilterExpressions[gu.i], ret, TRUE)))
            /\ ret' = Returned(Some(ret.val[1]))
            /\ tr' = <<>>
            /\ UNCHANGED ex
       ELSE IF gu.i < Len(FilterExpressions)
       THEN GuTryFilter(gu.i + 1, Append(gu.log, Lookup(FilterExpressions[gu.i], ret, FALSE)))
       ELSE /\ gu' = GuReturned(Append(gu.log, Lookup(FilterExpressions[gu.i], ret, FALSE)))
            /\ ret' = Returned(None)
            /\ tr' = <<>>
            /\ UNCHANGED ex
    /\ UNCHANGED <<access_token, issued, op, pc, args, loc, result, pl, hist, netUsed>>
    /\ UNCHANGED <<server, prev, wr, hd>>

GetUserId == GuAfterDirect \/ GuAfterFilter

\* if user_id:
Truthy(o) == ~IsNone(o) /\ Val(o) # ""

----------------------------------------------------------------------------
(* update_task *)

\* Names a caller passes as assignees.
Alice == <<"a">>
OBrien == <<"o", "'">>
Blank == <<" ">>
Padded == <<" ", "a", "\t">>

AssigneeLists == {<<>>, <<Alice>>, <<Blank, Alice>>, <<OBrien, Padded>>}

\* The arguments of the calls: every combination of the scalar fields without names
\* to resolve, and a few of them with names to resolve.
ScalarArgs ==
    [ title : {None, Some("t")},
      due_date : {None, Some("d")},
      percent_complete : {None, Some(-5), Some(50), Some(150)},
      completed : {None, Some(TRUE), Some(FALSE)},
      bucket_id : {None, Some("b")} ]

WithAssignees(a, l) ==
    [ title |-> a.title, due_date |-> a.due_date, assignees |-> l,
      percent_complete |-> a.percent_complete, completed |-> a.completed,
      bucket_id |-> a.bucket_id ]

UpdateArgs ==
    {WithAssignees(a, l) : a \in ScalarArgs, l \in {None, Some(<<>>)}}
    \cup {WithAssignees(a, Some(l)) :
            a \in {s \in ScalarArgs :
                     /\ IsNone(s.due_date) /\ IsNone(s.bucket_id) /\ IsNone(s.percent_complete)
                     /\ (IsNone(s.title) <=> IsNone(s.completed))
                     /\ s.completed # Some(FALSE)},
            l \in AssigneeLists \ {<<>>}}

\* Mutation of NoUpdateFields: completed is not among the inspected values.
NoUpdateFieldsButCompleted(a) ==
    /\ IsNone(a.title)
    /\ IsNone(a.due_date)
    /\ IsNone(a.assignees)
    /\ IsNone(a.percent_complete)
    /\ IsNone(a.bucket_id)
    /\ ~IsNone(a.completed)

\* not any(value is not None for value in (...))
NoUpdateFields(a) ==
    /\ IsNone(a.title)
    /\ IsNone(a.due_date)
    /\ IsNone(a.assignees)
    /\ IsNone(a.percent_complete)
    /\ IsNone(a.completed)
    /\ IsNone(a.bucket_id)

\* Mutation of Clamp: only the upper limit is applied.
ClampAbove(p) == Min(100, p)

\* max(0, min(100, percent_complete))
Clamp(p) == Max(0, Min(100, p))

\* The percentComplete the patch carries: None when the key is not set.
PercentComplete(a) ==
    IF ~IsNone(a.percent_complete) THEN Some(Clamp(Val(a.percent_complete)))
    ELSE IF ~IsNone(a.completed) THEN Some(IF Val(a.completed) THEN 100 ELSE 0)
    ELSE None

\* A dict of assignments: user ID -> TRUE (assignment marker) or FALSE (null).
EmptyDict == [u \in {} |-> TRUE]
DictSet(d, k, v) == [u \in (DOMAIN d) \cup {k} |-> IF u = k THEN v ELSE d[u]]

\* Mutation of MarkAll: only the first resolved ID is assigned.
MarkFirst(d, ids) == IF ids = <<>> THEN d ELSE DictSet(d, Head(ids), TRUE)

RECURSIVE MarkAll(_, _)
\* new_assignments[user_id] = {plannerAssignment} for every resolved ID
MarkAll(d, ids) == IF ids = <<>> THEN d ELSE MarkAll(DictSet(d, Head(ids), TRUE), Tail(ids))

\* Mutation of Tombstone: every current assignment is set to null.
TombstoneEvery(existing_id, resolved_ids) == TRUE

\* for existing_id in current_assignments.keys():
\*     if existing_id not in resolved_ids: new_assignments[existing_id] = None
Tombstone(existing_id, resolved_ids) == existing_id \notin SeqToSet(resolved_ids)

RECURSIVE TombstoneAll(_, _, _)
TombstoneAll(d, current, resolved_ids) ==
    IF current = <<>> THEN d
    ELSE TombstoneAll(
            IF Tombstone(Head(current).uid, resolved_ids)
            THEN DictSet(d, Head(current).uid, FALSE)
            ELSE d,
            Tail(current), resolved_ids)

NewAssignments(current, resolved_ids) ==
    TombstoneAll(MarkAll(EmptyDict, resolved_ids), current, resolved_ids)

\* Mutation of UpdatePayload: percentComplete is written as 0 when neither
\* percent_complete nor completed is given.
PayloadWithPercent(a, current, resolved_ids) ==
    [ title |-> a.title,
      dueDateTime |-> a.due_date,
      percentComplete |-> IF IsNone(PercentComplete(a)) THEN Some(0) ELSE PercentComplete(a),
      assignments |-> IF IsNone(a.assignees) THEN None
                      ELSE Some(NewAssignments(current, resolved_ids)),
      bucketId |-> a.bucket_id ]

\* update_payload: a key whose value is None is not in the dict.
UpdatePayload(a, current, resolved_ids) ==
    [ title |-> a.title,
      dueDateTime |-> a.due_date,
      percentComplete |-> PercentComplete(a),
      assignments |-> IF IsNone(a.assignees) THEN None
                      ELSE Some(NewAssignments(current, resolved_ids)),
      bucketId |-> a.bucket_id ]

PayloadKeys(p) == {k \in DOMAIN p : ~IsNone(p[k])}

\* The conditional PATCH is sent (or nothing, if the patch is empty).
UpdateSendPatch(etag, current, resolved_ids) ==
    LET payload == UpdatePayload(args, current, resolved_ids) IN
    IF PayloadKeys(payload) = {}
    THEN /\ pc' = "done"
         /\ result' = Result(Failure("No valid fields to update"))
         /\ loc' = [etag |-> etag, current |-> current, resolved_ids |-> resolved_ids,
                    i |-> 0, payload |-> payload]
         /\ gu' = IdleGu
         /\ UNCHANGED <<ex, ret, tr, pl>>
    ELSE /\ pc' = "patch"
         /\ loc' = [etag |-> etag, current |-> current, resolved_ids |-> resolved_ids,
                    i |-> 0, payload |-> payload]
         /\ StartExchange("PATCH", TaskUrl, IfMatch(etag), payload, "inline")
         /\ gu' = IdleGu
         /\ UNCHANGED <<result, pl>>

\* Mutation of UpdateTaskClauses: only the first except clause.
HTTPErrorClauseOnly == {"HTTPError"}

\* except requests.exceptions.HTTPError / except Exception
UpdateTaskClauses == {"HTTPError", "Exception"}

\* update_task is called with the arguments a.
UpdateBegin(a) ==
    /\ op' = "update_task"
    /\ args' = a
    /\ IF NoUpdateFields(a)
       THEN /\ pc' = "done"
            /\ result' = Result(Failure("No update fields were provided"))
            /\ UNCHANGED <<ex, ret, tr>>
       ELSE /\ pc' = "get"
            /\ StartExchange("GET", TaskUrl, 0, NoBody, "inline")
            /\ UNCHANGED result

UpdateStart ==
    /\ AtOp("idle", "idle")
    /\ \E a \in UpdateArgs : UpdateBegin(a)
    /\ UNCHANGED <<access_token, issued, loc, gu, pl, hist, netUsed>>
    /\ UNCHANGED <<server, prev, wr, hd>>

\* After the read: the ETag is taken, and the assignee names are resolved one by one.
UpdateAfterGet ==
    /\ AtOp("update_task", "get")
    /\ IF ret.k = "exc"
       THEN /\ pc' = "done"
            /\ result' = Handled(UpdateTaskClauses, ret)
            /\ UNCHANGED <<ex, ret, tr, loc, gu, pl>>
       ELSE LET etag == ETagOf(ret.val)
                current == ret.val.assignments
            IN
            IF ETagMissing(etag)
            THEN /\ pc' = "done"
                 /\ result' = Result(Failure("Task ETag missing; cannot update"))
                 /\ UNCHANGED <<ex, ret, tr, loc, gu, pl>>
            ELSE IF ~IsNone(args.assignees) /\ Val(args.assignees) # <<>>
            THEN /\ pc' = "names"
                 /\ loc' = [etag |-> etag, current |-> current, resolved_ids |-> <<>>,
                            i |-> 1, payload |-> NoBody]
                 /\ CallGetUserIdByName(Val(args.assignees)[1])
                 /\ UNCHANGED result
            ELSE UpdateSendPatch(etag, current, <<>>)
    /\ UNCHANGED <<access_token, issued, op, args, pl, hist, netUsed>>
    /\ UNCHANGED <<server, prev, wr, hd>>

\* One name is resolved: its ID, if any, joins resolved_ids; then the next name, or the
\* patch.
UpdateAfterName ==
    /\ AtOp("update_task", "names")
    /\ LET user_id == ret.val
           resolved_ids == IF Truthy(user_id)
                           THEN Append(loc.resolved_ids, Val(user_id))
                           ELSE loc.resolved_ids
           names == Val(args.assignees)
       IN
       IF loc.i < Len(names)
       THEN /\ loc' = [loc EXCEPT !.resolved_ids = resolved_ids, !.i = loc.i + 1]
            /\ CallGetUserIdByName(names[loc.i + 1])
            /\ UNCHANGED <<pc, result>>
       ELSE UpdateSendPatch(loc.etag, loc.current, resolved_ids)
    /\ UNCHANGED <<access_token, issued, op, args, pl, hist, netUsed>>
    /\ UNCHANGED <<server, prev, wr, hd>>

UpdateAfterPatch ==
    /\ AtOp("update_task", "patch")
    /\ pc' = "done"
    /\ result' = IF ret.k = "exc"
                 THEN Handled(UpdateTaskClauses, ret)
                 ELSE Result([success |-> TRUE, updated_fields |-> PayloadKeys(loc.payload)])
    /\ UNCHANGED <<access_token, issued, op, args, loc, ex, gu, pl, ret, tr, hist, netUsed>>
    /\ UNCHANGED <<server, prev, wr, hd>>

----------------------------------------------------------------------------
(* create_task *)

CreateArgs ==
    [ plan_name : {"Home"}, title : {"t"}, due_date : {None, Some("d")},
      assignees : {None, Some(<<>>)}, priority : {5}, bucket_id : {None, Some("b")} ]
    \cup
    [ plan_name : {"Home"}, title : {"t"}, due_date : {None},
      assignees : {Some(l) : l \in AssigneeLists \ {<<>>}}, priority : {5},
      bucket_id : {None} ]

\* if due_date: / if bucket_id: / if assignees:
TruthyText(o) == ~IsNone(o) /\ Val(o) # ""
TruthyList(o) == ~IsNone(o) /\ Val(o) # <<>>

\* task_data: a key whose value is None is not in the dict.
TaskData(a, plan_id, resolved_ids) ==
    [ planId |-> Some(plan_id),
      title |-> Some(a.title),
      priority |-> Some(a.priority),
      dueDateTime |-> IF TruthyText(a.due_date) THEN a.due_date ELSE None,
      bucketId |-> IF TruthyText(a.bucket_id) THEN a.bucket_id ELSE None,
      assignments |-> IF resolved_ids # <<>>
                      THEN Some(MarkAll(EmptyDict, resolved_ids))
                      ELSE None ]

\* outcomes: what get_user_id_by_name returned for each name, in order
CreateSendPost(plan_id, resolved_ids, outcomes) ==
    /\ pc' = "post"
    /\ loc' = [plan_id |-> plan_id, resolved_ids |-> resolved_ids, i |-> 0,
               outcomes |-> outcomes,
               task_data |-> TaskData(args, plan_id, resolved_ids)]
    /\ StartExchange("POST", NewTaskUrl, 0, TaskData(args, plan_id, resolved_ids), "inline")
    /\ gu' = IdleGu
    /\ UNCHANGED result

\* except requests.exceptions.HTTPError / except Exception
CreateTaskClauses == {"HTTPError", "Exception"}

\* create_task is called with the arguments a.
CreateBegin(a) ==
    /\ op' = "create_task"
    /\ args' = a
    /\ pc' = "plan"
    /\ CallGetPlanByName(a.plan_name)

CreateStart ==
    /\ AtOp("idle", "idle")
    /\ \E a \in CreateArgs : CreateBegin(a)
    /\ UNCHANGED <<access_token, issued, loc, result, gu, hist, netUsed>>
    /\ UNCHANGED <<server, prev, wr, hd>>

\* After get_plan_by_name (called outside the try): no plan is a failure; otherwise the
\* names are resolved one by one.
CreateAfterPlan ==
    /\ AtOp("create_task", "plan")
    /\ IF ret.k = "exc"
       THEN /\ pc' = "done"
            /\ result' = ResultRaised(ret)
            /\ UNCHANGED <<ex, ret, tr, loc, gu>>
       ELSE IF IsNone(ret.val)
       THEN /\ pc' = "done"
            /\ result' = Result(Failure("Plan not found"))
            /\ UNCHANGED <<ex, ret, tr, loc, gu>>
       ELSE IF TruthyList(args.assignees)
       THEN /\ pc' = "names"
            /\ loc' = [plan_id |-> Val(ret.val).id, resolved_ids |-> <<>>, i |-> 1,
                       outcomes |-> <<>>, task_data |-> NoBody]
            /\ CallGetUserIdByName(Val(args.assignees)[1])
            /\ UNCHANGED result
       ELSE CreateSendPost(Val(ret.val).id, <<>>, <<>>)
    /\ UNCHANGED <<access_token, issued, op, args, pl, hist, netUsed>>
    /\ UNCHANGED <<server, prev, wr, hd>>

\* One name is resolved: its ID, if any, is assigned; an unresolved name is skipped.
CreateAfterName ==
    /\ AtOp("create_task", "names")
    /\ LET user_id == ret.val
           resolved_ids == IF Truthy(user_id)
                           THEN Append(loc.resolved_ids, Val(user_id))
                           ELSE loc.resolved_ids
           names == Val(args.assignees)
       IN
       IF loc.i < Len(names)
       THEN /\ loc' = [loc EXCEPT !.resolved_ids = resolved_ids, !.i = loc.i + 1,
                               !.outcomes = Append(loc.outcomes, user_id)]
            /\ CallGetUserIdByName(names[loc.i + 1])
            /\ UNCHANGED <<pc, result>>
       ELSE CreateSendPost(loc.plan_id, resolved_ids, Append(loc.outcomes, user_id))
    /\ UNCHANGED <<access_token, issued, op, args, pl, hist, netUsed>>
    /\ UNCHANGED <<server, prev, wr, hd>>

CreateAfterPost ==
    /\ AtOp("create_task", "post")
    /\ pc' = "done"
    /\ result' = IF ret.k = "exc"
                 THEN Handled(CreateTaskClauses, ret)
                 ELSE Result([success |-> TRUE, task_id |-> ret.val.id])
    /\ UNCHANGED <<access_token, issued, op, args, loc, ex, gu, pl, ret, tr, hist, netUsed>>
    /\ UNCHANGED <<server, prev, wr, hd>>

----------------------------------------------------------------------------
(* get_plan_tasks and get_user_display_name *)

\* task.get("percentComplete", 0)
PercentOf(task) == IF IsNone(task.pct) THEN 0 ELSE Val(task.pct)

\* Mutation of IsOpen: a task at 100 percent counts as open.
IsOpenUpTo100(task) == PercentOf(task) <= 100

\* if task.get("percentComplete", 0) < 100
IsOpen(task) == PercentOf(task) < 100

\* the dict appended to open_tasks
OpenTask(task, assignees) ==
    [id |-> task.id, percentComplete |-> PercentOf(task), assignees |-> assignees]

RECURSIVE NextLookup(_, _, _, _, _)
\* Mutation of NextLookup: a user ID that an earlier assignment of an open task held is
\* not looked up again, its ID standing for the name.
NextLookupDistinct(all_tasks, ti, ai, open_tasks, assignees) ==
    IF ti > Len(all_tasks)
    THEN [kind |-> "end", ti |-> ti, ai |-> ai, open_tasks |-> open_tasks,
          assignees |-> assignees]
    ELSE LET task == all_tasks[ti] IN
         IF ~IsOpen(task)
         THEN NextLookup(all_tasks, ti + 1, 1, open_tasks, <<>>)
         ELSE IF ai > Len(task.assignments)
         THEN NextLookup(all_tasks, ti + 1, 1,
                         Append(open_tasks, OpenTask(task, assignees)), <<>>)
         ELSE IF ~task.assignments[ai].assigned
         THEN NextLookup(all_tasks, ti, ai + 1, open_tasks, assignees)
         ELSE IF \E tj \in 1..ti : \E aj \in 1..Len(all_tasks[tj].assignments) :
                    /\ tj < ti \/ aj < ai
                    /\ IsOpen(all_tasks[tj])
                    /\ all_tasks[tj].assignments[aj] = task.assignments[ai]
         THEN NextLookup(all_tasks, ti, ai + 1, open_tasks,
                         Append(assignees, task.assignments[ai].uid))
         ELSE [kind |-> "lookup", ti |-> ti, ai |-> ai, open_tasks |-> open_tasks,
               assignees |-> assignees]

\* The two loops, from assignment ai of task ti on, up to the next call of
\* get_user_display_name or to the end of all_tasks: completed tasks and null
\* assignments are passed over, a task whose assignments are done joins open_tasks.
NextLookup(all_tasks, ti, ai, open_tasks, assignees) ==
    IF ti > Len(all_tasks)
    THEN [kind |-> "end", ti |-> ti, ai |-> ai, open_tasks |-> open_tasks,
          assignees |-> assignees]
    ELSE LET task == all_tasks[ti] IN
         IF ~IsOpen(task)
         THEN NextLookup(all_tasks, ti + 1, 1, open_tasks, <<>>)
         ELSE IF ai > Len(task.assignments)
         THEN NextLookup(all_tasks, ti + 1, 1,
                         Append(open_tasks, OpenTask(task, assignees)), <<>>)
         ELSE IF ~task.assignments[ai].assigned
         THEN NextLookup(all_tasks, ti, ai + 1, open_tasks, assignees)
         ELSE [kind |-> "lookup", ti |-> ti, ai |-> ai, open_tasks |-> open_tasks,
               assignees |-> assignees]

Snapshot(plan_name, plan_id, open_tasks, error) ==
    [plan_name |-> plan_name, plan_id |-> plan_id, open_tasks |-> open_tasks,
     total_open |-> Len(open_tasks), error |-> error]

\* except Exception, around the task listing and the loops
GetPlanTasksClauses == {"Exception"}
\* except Exception, of get_user_display_name
GetUserDisplayNameClauses == {"Exception"}

\* user_response.get("displayName", user_id), or user_id when the lookup raised
DisplayName(r, user_id) ==
    IF r.k = "ok" /\ ~IsNone(r.val.displayName) THEN Val(r.val.displayName) ELSE user_id

\* The loops go on: the next user lookup is sent, or the snapshot is returned.
TasksContinue(n, answers) ==
    IF n.kind = "end"
    THEN /\ pc' = "done"
         /\ result' = Result(Snapshot(args.plan_name, Some(loc.plan_id), n.open_tasks, None))
         /\ loc' = [loc EXCEPT !.ti = n.ti, !.ai = n.ai, !.open_tasks = n.open_tasks,
                               !.assignees = n.assignees, !.answers = answers]
         /\ UNCHANGED <<ex, ret, tr>>
    ELSE /\ loc' = [loc EXCEPT !.ti = n.ti, !.ai = n.ai, !.open_tasks = n.open_tasks,
                               !.assignees = n.assignees, !.answers = answers]
         /\ StartExchange("GET", UserUrl(loc.all_tasks[n.ti].assignments[n.ai].uid), 0,
                          NoBody, "_make_request")
         /\ UNCHANGED <<pc, result>>

\* The loops begin on the listed tasks.
GetPlanTasksBegin(all_tasks) ==
    LET n == NextLookup(all_tasks, 1, 1, <<>>, <<>>) IN
    IF n.kind = "end"
    THEN /\ pc' = "done"
         /\ result' = Result(Snapshot(args.plan_name, Some(loc.plan_id), n.open_tasks, None))
         /\ loc' = [loc EXCEPT !.listed = TRUE, !.all_tasks = all_tasks, !.ti = n.ti,
                               !.ai = n.ai, !.open_tasks = n.open_tasks]
         /\ UNCHANGED <<ex, ret, tr>>
    ELSE /\ pc' = "lookup"
         /\ loc' = [loc EXCEPT !.listed = TRUE, !.all_tasks = all_tasks, !.ti = n.ti,
                               !.ai = n.ai, !.open_tasks = n.open_tasks]
         /\ StartExchange("GET", UserUrl(all_tasks[n.ti].assignments[n.ai].uid), 0,
                          NoBody, "_make_request")
         /\ UNCHANGED result

GetPlanTasksStart ==
    /\ AtOp("idle", "idle")
    /\ op' = "get_plan_tasks"
    /\ args' = [plan_name |-> "Home"]
    /\ pc' = "plan"
    /\ CallGetPlanByName("Home")
    /\ UNCHANGED <<access_token, issued, loc, result, gu, hist, netUsed>>
    /\ UNCHANGED <<server, prev, wr, hd>>

\* After get_plan_by_name (called outside the try): no plan gives the "not found"
\* snapshot, otherwise the plan's tasks are requested.
GetPlanTasksAfterPlan ==
    /\ AtOp("get_plan_tasks", "plan")
    /\ IF ret.k = "exc"
       THEN /\ pc' = "done"
            /\ result' = ResultRaised(ret)
            /\ UNCHANGED <<ex, ret, tr, loc>>
       ELSE IF IsNone(ret.val)
       THEN /\ pc' = "done"
            /\ result' = Result(Snapshot(args.plan_name, None, <<>>, Some("Plan not found")))
            /\ UNCHANGED <<ex, ret, tr, loc>>
       ELSE /\ pc' = "tasks"
            /\ loc' = [plan_id |-> Val(ret.val).id, listed |-> FALSE, all_tasks |-> <<>>,
                       ti |-> 0, ai |-> 0, open_tasks |-> <<>>, assignees |-> <<>>,
                       answers |-> <<>>]
            /\ StartExchange("GET", TasksUrl(Val(ret.val).id), 0, NoBody, "_make_request")
            /\ UNCHANGED result
    /\ UNCHANGED <<access_token, issued, op, args, gu, pl, hist, netUsed>>
    /\ UNCHANGED <<server, prev, wr, hd>>

\* After the task listing: a failure gives the snapshot with the error, otherwise the
\* loops over the tasks and their assignments begin.
GetPlanTasksAfterTasks ==
    /\ AtOp("get_plan_tasks", "tasks")
    /\ IF ret.k = "exc"
       THEN /\ pc' = "done"
            /\ result' = IF Catches(GetPlanTasksClauses, ret.x)
                         THEN Result(Snapshot(args.plan_name, Some(loc.plan_id), <<>>,
                                              Some(ErrorText(ret))))
                         ELSE ResultRaised(ret)
            /\ UNCHANGED <<ex, ret, tr, loc>>
       ELSE GetPlanTasksBegin(ret.val.value)
    /\ UNCHANGED <<access_token, issued, op, args, gu, pl, hist, netUsed>>
    /\ UNCHANGED <<server, prev, wr, hd>>

\* After a user lookup: the display name (or the user ID) joins the task's assignees.
GetPlanTasksAfterLookup ==
    /\ AtOp("get_plan_tasks", "lookup")
    /\ LET user_id == loc.all_tasks[loc.ti].assignments[loc.ai].uid
           caught == ret.k = "ok" \/ Catches(GetUserDisplayNameClauses, ret.x)
           display_name == DisplayName(ret, user_id)
           answer == [uid |-> user_id,
                      name |-> IF ret.k = "ok" THEN ret.val.displayName ELSE None]
       IN
       IF caught
       THEN TasksContinue(NextLookup(loc.all_tasks, loc.ti, loc.ai + 1, loc.open_tasks,
                                     Append(loc.assignees, display_name)),
                          Append(loc.answers, answer))
       ELSE /\ pc' = "done"
            /\ result' = IF Catches(GetPlanTasksClauses, ret.x)
                         THEN Result(Snapshot(args.plan_name, Some(loc.plan_id), <<>>,
                                              Some(ErrorText(ret))))
                         ELSE ResultRaised(ret)
            /\ UNCHANGED <<ex, ret, tr, loc>>
    /\ UNCHANGED <<access_token, issued, op, args, gu, pl, hist, netUsed>>
    /\ UNCHANGED <<server, prev, wr, hd>>

GetPlanTasks ==
    \/ GetPlanTasksStart
    \/ GetPlanTasksAfterPlan
    \/ GetPlanTasksAfterTasks
    \/ GetPlanTasksAfterLookup

----------------------------------------------------------------------------
(* resolve_bucket_id and get_plan_buckets *)

\* What a caller passes as bucket_value.
BucketValues ==
    {None, Some(<<>>), Some(<<" ">>), Some(<<"\t", " ">>), Some(<<"b">>),
     Some(<<" ", "B">>), Some(<<"c">>), Some(<<"z">>)}

\* except Exception, around the bucket listing of get_plan_buckets
GetPlanBucketsClauses == {"Exception"}

\* (bucket.get("id") or "").strip() / (bucket.get("name") or "").strip()
BucketId(bucket) == StripOpt(bucket.id)
BucketName(bucket) == StripOpt(bucket.name)

\* if bucket_id and bucket_id.lower() == target_lower
IdMatches(bucket, target_lower) ==
    BucketId(bucket) # <<>> /\ Lower(BucketId(bucket)) = target_lower

\* if bucket_name and bucket_name.lower() == target_lower
NameMatches(bucket, target_lower) ==
    BucketName(bucket) # <<>> /\ Lower(BucketName(bucket)) = target_lower

RECURSIVE FirstBucket(_, _)
\* The loop over the buckets: the first bucket whose ID or name matches.
FirstBucket(buckets, target_lower) ==
    IF buckets = <<>> THEN None
    ELSE IF IdMatches(Head(buckets), target_lower) \/ NameMatches(Head(buckets), target_lower)
    THEN Some(Head(buckets))
    ELSE FirstBucket(Tail(buckets), target_lower)

\* What resolve_bucket_id returns for the listed buckets.
ResolveIn(plan_id, buckets, cleaned_value) ==
    LET hit == FirstBucket(buckets, Lower(cleaned_value)) IN
    IF ~IsNone(hit)
    THEN [success |-> TRUE, plan_id |-> plan_id, bucket_id |-> BucketId(Val(hit)),
          bucket_name |-> BucketName(Val(hit))]
    ELSE [success |-> FALSE, plan_id |-> plan_id, error |-> "Bucket not found",
          available_buckets |-> buckets]

\* resolve_bucket_id is called with the value v.
ResolveBucketBegin(v) ==
    LET cleaned_value == StripOpt(v) IN
    /\ op' = "resolve_bucket_id"
    /\ args' = [plan_name |-> "Home", bucket_value |-> v]
    /\ IF cleaned_value = <<>>
       THEN /\ pc' = "done"
            /\ result' = Result(Failure("Bucket value is empty"))
            /\ UNCHANGED <<ex, ret, tr, pl>>
       ELSE /\ pc' = "plan"
            /\ CallGetPlanByName("Home")
            /\ UNCHANGED result

ResolveBucketStart ==
    /\ AtOp("idle", "idle")
    /\ \E v \in BucketValues : ResolveBucketBegin(v)
    /\ UNCHANGED <<access_token, issued, loc, gu, hist, netUsed>>
    /\ UNCHANGED <<server, prev, wr, hd>>

\* get_plan_buckets after get_plan_by_name (called outside the try): no plan is a
\* failure, which resolve_bucket_id returns as it is; otherwise the buckets are listed.
ResolveBucketAfterPlan ==
    /\ AtOp("resolve_bucket_id", "plan")
    /\ IF ret.k = "exc"
       THEN /\ pc' = "done"
            /\ result' = ResultRaised(ret)
            /\ UNCHANGED <<ex, ret, tr, loc>>
       ELSE IF IsNone(ret.val)
       THEN /\ pc' = "done"
            /\ result' = Result([success |-> FALSE, plan_id |-> None, buckets |-> <<>>,
                                 error |-> "Plan not found"])
            /\ UNCHANGED <<ex, ret, tr, loc>>
       ELSE /\ pc' = "buckets"
            /\ loc' = [plan_id |-> Val(ret.val).id]
            /\ StartExchange("GET", BucketsUrl(Val(ret.val).id), 0, NoBody, "_make_request")
            /\ UNCHANGED result
    /\ UNCHANGED <<access_token, issued, op, args, gu, pl, hist, netUsed>>
    /\ UNCHANGED <<server, prev, wr, hd>>

\* After the bucket listing: a failed listing is returned as a failure, otherwise the
\* value is matched against the buckets.
ResolveBucketAfterBuckets ==
    /\ AtOp("resolve_bucket_id", "buckets")
    /\ pc' = "done"
    /\ result' =
         IF ret.k = "exc"
         THEN IF Catches(GetPlanBucketsClauses, ret.x)
              THEN Result([success |-> FALSE, plan_id |-> Some(loc.plan_id),
                           buckets |-> <<>>, error |-> ErrorText(ret)])
              ELSE ResultRaised(ret)
         ELSE Result(ResolveIn(Some(loc.plan_id), ret.val.value, StripOpt(args.bucket_value)))
    /\ loc' = IF ret.k = "ok"
              THEN [plan_id |-> loc.plan_id, buckets |-> ret.val.value]
              ELSE loc
    /\ UNCHANGED <<access_token, issued, op, args, ex, gu, pl, ret, tr, hist, netUsed>>
    /\ UNCHANGED <<server, prev, wr, hd>>

ResolveBucket == ResolveBucketStart \/ ResolveBucketAfterPlan \/ ResolveBucketAfterBuckets

\* resolve_bucket_id has returned and is called again on the same PlannerAPI object with
\* the same arguments.
ResolveBucketAgain ==
    /\ AtOp("resolve_bucket_id", "done")
    /\ prev = <<>>
    /\ prev' = <<[args |-> args, result |-> result, token |-> access_token]>>
    /\ loc' = NoLoc
    /\ hist' = <<>>
    /\ netUsed' = FALSE
    /\ IF StripOpt(args.bucket_value) = <<>>
       THEN /\ result' = Result(Failure("Bucket value is empty"))
            /\ UNCHANGED <<pc, ex, ret, tr, pl>>
       ELSE /\ pc' = "plan"
            /\ result' = NoResult
            /\ CallGetPlanByName(args.plan_name)
    /\ UNCHANGED <<access_token, issued, op, args, gu, server, wr, hd>>

----------------------------------------------------------------------------
(* The configuration flow: ConfigFlow.async_step_user and validate_input
   (config_flow.py) *)

\* What the user submits: nothing yet, or the credentials and a plan name.
UserInputs == {None, Some([plan_name |-> "Home"]), Some([plan_name |-> "Garden"])}

\* self.async_show_form(step_id="user", ..., errors=errors); errors: None is {}
ShowForm(errors) == [type |-> "form", errors |-> errors]
\* self.async_create_entry(title=info["title"], data=user_input)
CreateEntry(user_input) == [type |-> "create_entry", data |-> user_input]
\* self._abort_if_unique_id_configured() found the entry configured
Abort == [type |-> "abort"]

\* except CannotConnect / except InvalidAuth / except Exception, of async_step_user
FlowError(x) ==
    CASE x = "CannotConnect" -> "cannot_connect"
      [] x = "InvalidAuth" -> "invalid_auth"
      [] OTHER -> "unknown"

\* Mutation of PlanMissing: the plan is not checked.
PlanNeverMissing(plan) == FALSE

\* if not plan
PlanMissing(plan) == IsNone(plan)

\* The flow's locals: how authenticate() ended and what get_plan_by_name returned.
FlowLoc(auth, plan) == [auth |-> auth, plan |-> plan]

\* async_step_user is called: without input the form is shown; with input
\* validate_input makes a new PlannerAPI (no token) and authenticates.
FlowStart ==
    /\ AtOp("idle", "idle")
    /\ \E user_input \in UserInputs :
         /\ op' = "config_flow"
         /\ args' = [user_input |-> user_input]
         /\ loc' = FlowLoc("none", None)
         /\ IF IsNone(user_input)
            THEN /\ pc' = "done"
                 /\ result' = Result(ShowForm(None))
                 /\ UNCHANGED access_token
            ELSE /\ pc' = "auth"
                 /\ access_token' = 0
                 /\ UNCHANGED result
    /\ UNCHANGED <<issued, ex, gu, pl, ret, tr, hist, netUsed, server, prev, wr, hd>>

\* api.authenticate(): a failure is InvalidAuth; after a success the plan is looked up.
FlowAuthenticate ==
    /\ AtOp("config_flow", "auth")
    /\ netUsed' = TRUE
    /\ \/ /\ AuthSucceeds
          /\ pc' = "plan"
          /\ loc' = FlowLoc("ok", None)
          /\ CallGetPlanByName(Val(args.user_input).plan_name)
          /\ UNCHANGED result
       \/ /\ AuthFails
          /\ pc' = "done"
          /\ loc' = FlowLoc("failed", None)
          /\ result' = Result(ShowForm(Some(FlowError("InvalidAuth"))))
          /\ UNCHANGED <<ex, pl, ret, tr>>
    /\ UNCHANGED <<op, args, gu, hist, server, prev, wr, hd>>

\* After get_plan_by_name: an exception is CannotConnect; without a plan the plans are
\* listed once more for the log; with the plan the entry is created, unless one with the
\* same unique ID is configured already.
FlowAfterPlan ==
    /\ AtOp("config_flow", "plan")
    /\ IF ret.k = "exc"
       THEN /\ pc' = "done"
            /\ result' = Result(ShowForm(Some(FlowError("CannotConnect"))))
            /\ UNCHANGED <<loc, ex, pl, ret, tr>>
       ELSE IF PlanMissing(ret.val)
       THEN /\ pc' = "list"
            /\ loc' = FlowLoc(loc.auth, ret.val)
            /\ CallListAllPlans
            /\ UNCHANGED result
       ELSE /\ pc' = "done"
            /\ loc' = FlowLoc(loc.auth, ret.val)
            /\ \E configured \in BOOLEAN :
                 result' = IF configured THEN Result(Abort)
                           ELSE Result(CreateEntry(Val(args.user_input)))
            /\ UNCHANGED <<ex, pl, ret, tr>>
    /\ UNCHANGED <<access_token, issued, op, args, gu, hist, netUsed, server, prev, wr, hd>>

\* After list_all_plans: CannotConnect, with the available plans or from the exception.
FlowAfterList ==
    /\ AtOp("config_flow", "list")
    /\ pc' = "done"
    /\ result' = Result(ShowForm(Some(FlowError("CannotConnect"))))
    /\ UNCHANGED <<access_token, issued, op, args, loc, ex, gu, pl, ret, tr, hist, netUsed,
                   server, prev, wr, hd>>

Flow == FlowStart \/ FlowAuthenticate \/ FlowAfterPlan \/ FlowAfterList

----------------------------------------------------------------------------
(* The handlers of Home Assistant: the services create_task and update_task
   (__init__.py) and the operations of the todo entity (todo.py) *)

\* The text of a stripped ID, as the write operations take it.
Text(chars) ==
    CASE chars = <<"a">> -> "a"
      [] chars = <<"b">> -> "b"
      [] OTHER -> "?"

\* call.data of the service create_task: title, assignees, bucket_id and bucket.
CreateCalls ==
    [ title : {"t"}, assignees : {None}, bucket_id : {None, Some("b")},
      bucket : {None, Some(<<>>), Some(<<"b">>), Some(<<"z">>)} ]
    \cup [ title : {"t"}, assignees : {Some(<<Alice>>)}, bucket_id : {None}, bucket : {None} ]

\* call.data of the service update_task: task_id, title, assignees, completed,
\* bucket_id and bucket.
UpdateCalls ==
    [ task_id : {None, Some("x")}, title : {None, Some("t")}, assignees : {None},
      completed : {None, Some(TRUE)}, bucket_id : {None, Some("b")},
      bucket : {None, Some(<<"b">>)} ]
    \cup [ task_id : {Some("x")}, title : {None}, assignees : {Some(<<Alice>>)},
           completed : {None}, bucket_id : {None}, bucket : {None} ]

\* A datetime: the hour on the clock and the offset of its time zone (None: naive).
Datetimes == {[hour |-> 9, offset |-> None], [hour |-> 9, offset |-> Some(2)]}

\* value.isoformat().replace("+00:00", "Z") of a datetime in UTC
IsoZ(hour) ==
    CASE hour = 7 -> "07:00Z"
      [] hour = 9 -> "09:00Z"
      [] OTHER -> "??:??Z"

\* PlannerTodoList._format_due_date: a naive datetime is taken as UTC, another one is
\* converted to UTC.
FormatDueDate(value) ==
    IF IsNone(value) THEN None
    ELSE Some(IsoZ(IF IsNone(Val(value).offset) THEN Val(value).hour
                   ELSE Val(value).hour - Val(Val(value).offset)))

\* PlannerTodoList._priority_to_planner
PriorityToPlanner(priority) ==
    CASE priority = Some("high") -> 1
      [] priority = Some("low") -> 9
      [] OTHER -> 5

\* The todo items handed to the entity, and for the properties the percentComplete the
\* task of the item had in the snapshot (was).
TodoItems ==
    [ uid : {None, Some("x")}, summary : {None, Some("t")},
      due : {None} \cup {Some(d) : d \in Datetimes},
      status : {"needs_action", "completed"},
      priority : {None, Some("high")},
      was : {0, 50} ]

\* item.summary or "New Task"
SummaryOrDefault(summary) == IF IsNone(summary) \/ summary = Some("") THEN "New Task" ELSE Val(summary)

\* The arguments async_create_todo_item passes to create_task.
TodoCreateArgs(item) ==
    [ plan_name |-> "Home", title |-> SummaryOrDefault(item.summary),
      due_date |-> FormatDueDate(item.due), assignees |-> None,
      priority |-> PriorityToPlanner(item.priority), bucket_id |-> None ]

\* completed = item.status == TodoItemStatus.COMPLETED
Completed(item) == item.status = "completed"

\* Mutation of TodoUpdateArgs: completed is passed only for a completed item.
TodoUpdateArgsIfCompleted(item) ==
    [ title |-> item.summary, due_date |-> FormatDueDate(item.due), assignees |-> None,
      percent_complete |-> None,
      completed |-> IF Completed(item) THEN Some(TRUE) ELSE None, bucket_id |-> None ]

\* The arguments async_update_todo_item passes to update_task.
TodoUpdateArgs(item) ==
    [ title |-> item.summary, due_date |-> FormatDueDate(item.due), assignees |-> None,
      percent_complete |-> None, completed |-> Some(Completed(item)), bucket_id |-> None ]

\* The arguments handle_create_task passes to create_task.
ServiceCreateArgs(call, resolved_bucket_id) ==
    [ plan_name |-> "Home", title |-> call.title, due_date |-> None,
      assignees |-> IF IsNone(call.assignees) THEN Some(<<>>) ELSE call.assignees,
      priority |-> 5, bucket_id |-> resolved_bucket_id ]

\* The arguments handle_update_task passes to update_task.
ServiceUpdateArgs(call, resolved_bucket_id) ==
    [ title |-> call.title, due_date |-> None, assignees |-> call.assignees,
      percent_complete |-> None, completed |-> call.completed,
      bucket_id |-> resolved_bucket_id ]

\* if not resolved_bucket_id and bucket_value
NeedsLookup(call) ==
    /\ ~TruthyText(call.bucket_id)
    /\ ~IsNone(call.bucket) /\ Val(call.bucket) # <<>>

\* Mutation of Succeeded: the result is not inspected.
AlwaysSucceeded(res) == TRUE

\* result.get("success")
Succeeded(res) == res.success

\* The frame of a handler: its input, its position, what it returned and the number of
\* coordinator.async_request_refresh() it has made.
HdFrame(name, input, p, returned) ==
    [name |-> name, input |-> input, pc |-> p, returned |-> returned,
     refreshes |-> hd.refreshes]

\* The handler returns v without having called a write operation.
HdReturnEarly(name, input, v) ==
    /\ hd' = HdFrame(name, input, "returned", v)
    /\ UNCHANGED <<op, pc, args, result, ex, ret, tr, pl>>

\* update_task is called by handle_update_task, unless task_id is missing.
HdCallUpdate(call, resolved_bucket_id) ==
    IF IsNone(call.task_id)
    THEN HdReturnEarly("handle_update_task", call, Failure("task_id missing"))
    ELSE /\ hd' = HdFrame("handle_update_task", call, "write", NoResult)
         /\ UpdateBegin(ServiceUpdateArgs(call, resolved_bucket_id))
         /\ UNCHANGED pl

\* create_task is called by handle_create_task.
HdCallCreate(call, resolved_bucket_id) ==
    /\ hd' = HdFrame("handle_create_task", call, "write", NoResult)
    /\ CreateBegin(ServiceCreateArgs(call, resolved_bucket_id))
    /\ result' = NoResult

\* The service create_task is called: the bucket is looked up by its name if no ID is
\* given, and create_task is called.
HandleCreateTask ==
    /\ AtOp("idle", "idle")
    /\ hd.pc = "idle"
    /\ \E call \in CreateCalls :
         IF NeedsLookup(call)
         THEN /\ hd' = HdFrame("handle_create_task", call, "lookup", NoResult)
              /\ ResolveBucketBegin(call.bucket)
         ELSE HdCallCreate(call, call.bucket_id)
    /\ UNCHANGED <<access_token, issued, loc, gu, hist, netUsed, server, prev, wr>>

\* The service update_task is called: the bucket is looked up by its name if no ID is
\* given, and update_task is called if there is a task_id.
HandleUpdateTask ==
    /\ AtOp("idle", "idle")
    /\ hd.pc = "idle"
    /\ \E call \in UpdateCalls :
         IF NeedsLookup(call)
         THEN /\ hd' = HdFrame("handle_update_task", call, "lookup", NoResult)
              /\ ResolveBucketBegin(call.bucket)
         ELSE HdCallUpdate(call, call.bucket_id)
    /\ UNCHANGED <<access_token, issued, loc, gu, hist, netUsed, server, prev, wr>>

\* resolve_bucket_id has returned to a service handler: a failed lookup is returned to
\* the caller of the service, otherwise the write operation is called with the bucket's ID.
HdAfterLookup ==
    /\ AtOp("resolve_bucket_id", "done")
    /\ hd.pc = "lookup"
    /\ IF result.k = "exc"
       THEN /\ hd' = HdFrame(hd.name, hd.input, "raised", NoResult)
            /\ UNCHANGED <<op, pc, args, result, ex, ret, tr, pl>>
       ELSE IF ~Succeeded(result.val)
       THEN HdReturnEarly(hd.name, hd.input, result.val)
       ELSE IF hd.name = "handle_create_task"
       THEN HdCallCreate(hd.input, Some(Text(result.val.bucket_id)))
       ELSE HdCallUpdate(hd.input, Some(Text(result.val.bucket_id)))
    /\ UNCHANGED <<access_token, issued, loc, gu, hist, netUsed, server, prev, wr>>

\* async_create_todo_item
TodoCreate ==
    /\ AtOp("idle", "idle")
    /\ hd.pc = "idle"
    /\ \E item \in TodoItems :
         /\ hd' = HdFrame("async_create_todo_item", item, "write", NoResult)
         /\ CreateBegin(TodoCreateArgs(item))
    /\ UNCHANGED <<access_token, issued, loc, result, gu, hist, netUsed, server, prev, wr>>

\* async_update_todo_item: without a uid nothing is done.
TodoUpdate ==
    /\ AtOp("idle", "idle")
    /\ hd.pc = "idle"
    /\ \E item \in TodoItems :
         IF IsNone(item.uid)
         THEN HdReturnEarly("async_update_todo_item", item, None)
         ELSE /\ hd' = HdFrame("async_update_todo_item", item, "write", NoResult)
              /\ UpdateBegin(TodoUpdateArgs(item))
              /\ UNCHANGED pl
    /\ UNCHANGED <<access_token, issued, loc, gu, hist, netUsed, server, prev, wr>>

\* async_delete_todo_item
TodoDelete ==
    /\ AtOp("idle", "idle")
    /\ hd.pc = "idle"
    /\ hd' = HdFrame("async_delete_todo_item", Some("x"), "write", NoResult)
    /\ DeleteBegin
    /\ UNCHANGED <<access_token, issued, args, loc, result, gu, pl, hist, netUsed,
                   server, prev, wr>>

\* The write operation has returned to its handler: after a success the coordinator is
\* asked to refresh, and the handler returns.
HdAfterWrite ==
    /\ op \in {"create_task", "update_task", "delete_task"}
    /\ AtOp(op, "done")
    /\ hd.pc = "write"
    /\ IF result.k = "exc"
       THEN hd' = HdFrame(hd.name, hd.input, "raised", NoResult)
       ELSE hd' = [name |-> hd.name, input |-> hd.input, pc |-> "returned",
                   returned |-> result.val,
                   refreshes |-> IF Succeeded(result.val) THEN hd.refreshes + 1
                                 ELSE hd.refreshes]
    /\ UNCHANGED <<access_token, issued, op, pc, args, loc, result, ex, gu, pl, ret, tr, hist,
                   netUsed, server, prev, wr>>

Handlers ==
    \/ HandleCreateTask \/ HandleUpdateTask \/ HdAfterLookup
    \/ TodoCreate \/ TodoUpdate \/ TodoDelete
    \/ HdAfterWrite

----------------------------------------------------------------------------
(* update_task and delete_task called concurrently: Home Assistant runs each call in
   an executor thread, on the one PlannerAPI object *)

Writers == {1, 2}

\* A server holding one task and enforcing If-Match: etag is the task's current ETag,
\* accepted the writes it has applied.
TaskServer == [mode |-> "task", etag |-> 1, exists |-> TRUE, accepted |-> <<>>]

\* The frame of a call: its position, the ETag it read, and for the properties the
\* server's ETag when it read (seen), its reads answered 2xx and the writes it sent.
WriterStart(kind) ==
    [kind |-> kind, pc |-> "get_hdr", retried |-> FALSE, etag |-> 0, seen |-> 0,
     reads |-> 0, writes |-> <<>>, result |-> NoResult]

WriteMethod(kind) == IF kind = "update_task" THEN "PATCH" ELSE "DELETE"
WriterClauses(kind) == IF kind = "update_task" THEN UpdateTaskClauses ELSE DeleteTaskClauses

\* The server's answers to GET planner/tasks/{id} sent with token tok.
TaskReadAnswers(srv, tok) ==
    {[net |-> "ok", st |-> 401, body |-> NoBody]}
    \cup (IF tok = 0 THEN {}
          ELSE IF srv.exists
          THEN {[net |-> "ok", st |-> 200,
                 body |-> [h |-> srv.etag, b |-> 0, assignments |-> <<>>]]}
          ELSE {[net |-> "ok", st |-> 404, body |-> NoBody]})

\* The server's status for a PATCH or DELETE with If-Match ifm sent with token tok:
\* 401, or 404 for a deleted task, 204 when ifm is the task's ETag, 412 otherwise.
TaskWriteStatuses(srv, tok, ifm) ==
    {401}
    \cup (IF tok = 0 THEN {}
          ELSE IF ~srv.exists THEN {404}
          ELSE IF ifm = srv.etag THEN {204}
          ELSE {412})

\* The server applies an accepted write: a PATCH gives the task a new ETag, a DELETE
\* removes it.
Apply(srv, w, m, ifm, seen) ==
    [srv EXCEPT !.etag = IF m = "PATCH" THEN srv.etag + 1 ELSE srv.etag,
                !.exists = m = "PATCH",
                !.accepted = Append(srv.accepted,
                                    [w |-> w, m |-> m, ifm |-> ifm, seen |-> seen,
                                     at |-> srv.etag])]

WrDone(w, res) == wr' = [wr EXCEPT ![w].pc = "done", ![w].result = res]

\* headers=self._get_headers(): authenticate() first when no token is cached.
WrHeaders(w) ==
    /\ wr[w].pc \in {"get_hdr", "write_hdr"}
    /\ LET send == IF wr[w].pc = "get_hdr" THEN "get_send" ELSE "write_send" IN
       IF access_token # 0
       THEN /\ wr' = [wr EXCEPT ![w].pc = send]
            /\ UNCHANGED <<access_token, issued>>
       ELSE \/ /\ AuthSucceeds
               /\ wr' = [wr EXCEPT ![w].pc = send]
            \/ /\ AuthFails
               /\ WrDone(w, Handled(WriterClauses(wr[w].kind), Raised("AuthError", 0)))
    /\ UNCHANGED <<op, pc, args, loc, result, ex, gu, pl, ret, tr, hist, netUsed, server, prev, hd>>

\* The read of the task is sent with the token cached at that moment, and its response
\* handled.
WrGet(w) ==
    /\ wr[w].pc = "get_send"
    /\ \E r \in TaskReadAnswers(server, HeaderToken(access_token)) :
         IF ShouldRetry(r.st, ~wr[w].retried)
         THEN /\ access_token' = DiscardToken(access_token)
              /\ wr' = [wr EXCEPT ![w].pc = "get_reauth"]
         ELSE IF RaiseForStatus(r.st)
         THEN /\ WrDone(w, Handled(WriterClauses(wr[w].kind), Raised("HTTPError", r.st)))
              /\ UNCHANGED access_token
         ELSE IF ETagMissing(ETagOf(r.body))
         THEN /\ WrDone(w, Result(Failure("Task ETag missing")))
              /\ UNCHANGED access_token
         ELSE /\ wr' = [wr EXCEPT ![w].pc = "write_hdr", ![w].retried = FALSE,
                                  ![w].etag = ETagOf(r.body), ![w].seen = server.etag,
                                  ![w].reads = @ + 1]
              /\ UNCHANGED access_token
    /\ UNCHANGED <<issued, op, pc, args, loc, result, ex, gu, pl, ret, tr, hist, netUsed,
                   server, prev, hd>>

\* The conditional write is sent with If-Match set to the ETag read, and its response
\* handled.
WrWrite(w) ==
    /\ wr[w].pc = "write_send"
    /\ LET m == WriteMethod(wr[w].kind)
           ifm == IfMatch(wr[w].etag)
       IN
       \E st \in TaskWriteStatuses(server, HeaderToken(access_token), ifm) :
         LET sent == Append(wr[w].writes, [ifm |-> ifm, st |-> st]) IN
         /\ server' = IF IsOk(st) THEN Apply(server, w, m, ifm, wr[w].seen) ELSE server
         /\ IF ShouldRetry(st, ~wr[w].retried)
            THEN /\ access_token' = DiscardToken(access_token)
                 /\ wr' = [wr EXCEPT ![w].pc = "write_reauth", ![w].writes = sent]
            ELSE IF RaiseForStatus(st)
            THEN /\ wr' = [wr EXCEPT ![w].pc = "done", ![w].writes = sent,
                                     ![w].result = Handled(WriterClauses(wr[w].kind),
                                                           Raised("HTTPError", st))]
                 /\ UNCHANGED access_token
            ELSE /\ wr' = [wr EXCEPT ![w].pc = "done", ![w].writes = sent,
                                     ![w].result = Result([success |-> TRUE])]
                 /\ UNCHANGED access_token
    /\ UNCHANGED <<issued, op, pc, args, loc, result, ex, gu, pl, ret, tr, hist, netUsed, prev,
                   hd>>

\* self.authenticate() after a 401 (the token was set to None with the response), then
\* the request again.
WrReauth(w) ==
    /\ wr[w].pc \in {"get_reauth", "write_reauth"}
    /\ \/ /\ AuthSucceeds
          /\ wr' = [wr EXCEPT ![w].pc = IF wr[w].pc = "get_reauth" THEN "get_hdr"
                                        ELSE "write_hdr",
                              ![w].retried = TRUE]
       \/ /\ AuthFails
          /\ WrDone(w, Handled(WriterClauses(wr[w].kind), Raised("AuthError", 0)))
    /\ UNCHANGED <<op, pc, args, loc, result, ex, gu, pl, ret, tr, hist, netUsed, server, prev, hd>>

----------------------------------------------------------------------------
\* A PlannerAPI object, before or after its first authenticate().
ClientInit ==
    /\ access_token \in {0, 1}
    /\ issued = access_token
    /\ op = "idle"
    /\ pc = "idle"
    /\ args = NoArgs
    /\ loc = NoLoc
    /\ result = NoResult
    /\ ex = IdleEx
    /\ gu = IdleGu
    /\ pl = IdlePl
    /\ ret = NoRet
    /\ tr = <<>>
    /\ hist = <<>>
    /\ netUsed = FALSE
    /\ prev = <<>>
    /\ hd = IdleHd

Init == ClientInit /\ server = AnyServer /\ wr = NoWriters

InitStable == ClientInit /\ server \in StableServers /\ wr = NoWriters

\* Two calls on the same task are about to run, each update_task (with a title) or
\* delete_task.
InitRace ==
    /\ ClientInit
    /\ server = TaskServer
    /\ wr \in [Writers -> {WriterStart(k) : k \in {"update_task", "delete_task"}}]

Http == ExAuthenticate \/ ExSend \/ ExReauth

Next ==
    \/ Http
    \/ MakeRequestStart \/ MakeRequestDone
    \/ GetUserId
    \/ GetPlan
    \/ CreateStart \/ CreateAfterPlan \/ CreateAfterName \/ CreateAfterPost
    \/ DeleteStart \/ DeleteAfterGet \/ DeleteAfterDelete
    \/ UpdateStart \/ UpdateAfterGet \/ UpdateAfterName \/ UpdateAfterPatch

Spec == Init /\ [][Next]_vars

\* The polling read path on its own.
NextTasks == Http \/ GetPlan \/ GetPlanTasks

SpecTasks == Init /\ [][NextTasks]_vars

\* Bucket resolution on its own.
NextBucket == Http \/ GetPlan \/ ResolveBucket

SpecBucket == Init /\ [][NextBucket]_vars

\* Bucket resolution called twice against a stable server.
NextTwice == Http \/ GetPlan \/ ResolveBucket \/ ResolveBucketAgain

SpecTwice == InitStable /\ [][NextTwice]_vars

\* The configuration flow.
NextFlow == Http \/ GetPlan \/ Flow

SpecFlow == Init /\ [][NextFlow]_vars

\* The service handlers and the todo entity, with the operations they call.
NextHandlers ==
    \/ Http \/ GetPlan \/ GetUserId
    \/ ResolveBucketAfterPlan \/ ResolveBucketAfterBuckets
    \/ CreateAfterPlan \/ CreateAfterName \/ CreateAfterPost
    \/ DeleteAfterGet \/ DeleteAfterDelete
    \/ UpdateAfterGet \/ UpdateAfterName \/ UpdateAfterPatch
    \/ Handlers

SpecHandlers == Init /\ [][NextHandlers]_vars

\* Two concurrent writers of one task.
NextRace ==
    \E w \in Writers : WrHeaders(w) \/ WrGet(w) \/ WrWrite(w) \/ WrReauth(w)

SpecRace == InitRace /\ [][NextRace]_vars

----------------------------------------------------------------------------
(* Properties of the request layer *)

\* The position in tr of its n-th send.
RECURSIVE SendIndex(_, _, _)
SendIndex(t, n, from) ==
    IF from > Len(t) THEN 0
    ELSE IF t[from].e = "send"
    THEN IF n = 1 THEN from ELSE SendIndex(t, n - 1, from + 1)
    ELSE SendIndex(t, n, from + 1)

FirstRejectedThenOk ==
    LET s == Sends(tr) IN Len(s) >= 2 /\ s[1].st = 401 /\ IsOk(s[2].st)

\* C1: a request whose first attempt is answered 401 and whose second attempt is
\* answered 2xx: after the 401 the cached token is None until authenticate() has run;
\* between the two attempts authenticate() runs exactly once (successfully); there are
\* two attempts and no more; the second one carries the token acquired by that
\* authenticate(), which is the cached one and differs from the rejected one; and the
\* caller is handed the successful response.
C1_RetryOnceWithNewToken ==
    /\ ex.pc = "reauth" => access_token = 0 /\ tr[Len(tr)].e = "send" /\ tr[Len(tr)].st = 401
    /\ FirstRejectedThenOk =>
         LET s == Sends(tr)
             i1 == SendIndex(tr, 1, 1)
         IN
         /\ Len(s) = 2
         /\ Len(tr) = i1 + 2
         /\ tr[i1 + 1] = AuthEv(TRUE, "401")
         /\ tr[i1 + 2].e = "send"
         /\ s[2].tok # 0
         /\ s[2].tok # s[1].tok
         /\ s[2].tok = issued
         /\ s[2].tok = access_token
         /\ ex.pc = "idle"
         /\ ret.k = "ok"
         /\ (op = "_make_request" /\ pc = "done" => result = Result(ret.val))

C1_Witness ==
    /\ op = "_make_request"
    /\ pc = "done"
    /\ FirstRejectedThenOk
    /\ result.k = "ok"

RejectedTwice ==
    LET s == Sends(tr) IN Len(s) >= 2 /\ s[1].st = 401 /\ s[2].st = 401

WriteOps == {"create_task", "update_task", "delete_task"}

\* C2: a logical request is attempted at most twice and re-authenticated for at most
\* once; answered 401 twice in a row it has ended after exactly two attempts with the
\* HTTP error of the second 401, and the operation that sent it ends in failure (a
\* write operation returns success = false, _make_request raises).
C2_SecondUnauthorizedIsFinal ==
    /\ Len(Sends(tr)) <= 2
    /\ Len(ReAuths(tr)) <= 1
    /\ RejectedTwice =>
         /\ Len(Sends(tr)) = 2
         /\ ex.pc = "idle"
         /\ ret = Raised("HTTPError", 401)
         /\ (pc = "done" /\ op \in WriteOps =>
                result.k = "ok" /\ result.val.success = FALSE)
         /\ (pc = "done" /\ op = "_make_request" => result.k = "exc")

C2_Witness ==
    /\ RejectedTwice
    /\ pc = "done"
    /\ op = "update_task"
    /\ hist[Len(hist)].m = "PATCH"

----------------------------------------------------------------------------
(* Properties of the task writes *)

IsWrite(h) == h.m \in {"PATCH", "DELETE"}
IsGoodRead(h) == h.m = "GET" /\ h.net = "ok" /\ IsOk(h.st)

\* C3: every PATCH or DELETE that update_task or delete_task sends carries an If-Match
\* value, and that value is an ETag (header or body field) returned by a successful GET
\* of the task sent earlier in the same call.
C3_WritesCarryReadETag ==
    op \in {"update_task", "delete_task"} =>
        \A i \in 1..Len(hist) :
            IsWrite(hist[i]) =>
                /\ hist[i].ifm # 0
                /\ \E j \in 1..(i - 1) :
                      /\ IsGoodRead(hist[j])
                      /\ hist[i].ifm \in {hist[j].etags[1], hist[j].etags[2]}
                      /\ hist[j].etags[1] # 0 => hist[i].ifm = hist[j].etags[1]

C3_Witness ==
    /\ op = "update_task"
    /\ Len(hist) >= 2
    /\ hist[Len(hist)].m = "PATCH"
    /\ hist[Len(hist)].ifm = 2
    /\ IsOk(hist[Len(hist)].st)

ReadWithoutETag == \E j \in 1..Len(hist) : IsGoodRead(hist[j]) /\ hist[j].etags = <<0, 0>>

\* C4: delete_task whose read of the task yields no ETag (neither header nor body
\* field) sends no DELETE and returns the failure "Task ETag missing; cannot delete".
C4_DeleteWithoutETagFails ==
    (op = "delete_task" /\ ReadWithoutETag) =>
        /\ \A i \in 1..Len(hist) : hist[i].m # "DELETE"
        /\ pc \in {"get", "done"}
        /\ pc = "done" => result = Result(Failure("Task ETag missing; cannot delete"))

C4_Witness ==
    /\ op = "delete_task"
    /\ ReadWithoutETag
    /\ pc = "done"
    /\ result.val.success = FALSE

AllAbsent ==
    [ title |-> None, due_date |-> None, assignees |-> None, percent_complete |-> None,
      completed |-> None, bucket_id |-> None ]

\* C5: update_task called with every optional field absent returns a failure and has
\* done nothing: no token acquisition, no request, the cached token as it was.
C5_NoFieldsNoEffect ==
    (op = "update_task" /\ args = AllAbsent) =>
        /\ pc = "done"
        /\ result.k = "ok"
        /\ result.val.success = FALSE
        /\ ~netUsed
        /\ hist = <<>>
        /\ tr = <<>>
        /\ ex.pc = "idle"
        /\ issued = access_token

C5_Witness == op = "update_task" /\ args = AllAbsent /\ pc = "done" /\ access_token = 1

\* The patch of the PATCH requests update_task has sent.
SentPatches == {hist[i].json : i \in {j \in 1..Len(hist) : hist[j].m = "PATCH"}}

\* percent_complete as the claim states it
ExpectedPercent(a) ==
    IF ~IsNone(a.percent_complete)
    THEN LET p == Val(a.percent_complete) IN
         Some(IF p < 0 THEN 0 ELSE IF p > 100 THEN 100 ELSE p)
    ELSE IF a.completed = Some(TRUE) THEN Some(100)
    ELSE IF a.completed = Some(FALSE) THEN Some(0)
    ELSE None

\* C9: the percentComplete of every patch update_task sends is percent_complete clamped
\* to [0, 100] when percent_complete is given, whatever completed is; otherwise 100 for
\* completed = true and 0 for completed = false; and the key is absent when neither is
\* given.
C9_PercentComplete ==
    op = "update_task" =>
        \A p \in SentPatches : p.percentComplete = ExpectedPercent(args)

C9_Witness ==
    /\ op = "update_task"
    /\ args.percent_complete = Some(150)
    /\ args.completed = Some(FALSE)
    /\ \E p \in SentPatches : p.percentComplete = Some(100)

CurrentIds == {loc.current[i].uid : i \in 1..Len(loc.current)}

\* C10: when assignees is supplied, the assignments of the patch update_task sends have
\* exactly the keys "currently assigned or resolved from the new names"; every resolved
\* ID maps to an assignment marker and every currently assigned ID that was not
\* resolved maps to null.
C10_AssigneesAuthoritative ==
    (op = "update_task" /\ ~IsNone(args.assignees)) =>
        \A p \in SentPatches :
            LET d == Val(p.assignments)
                resolved == SeqToSet(loc.resolved_ids)
            IN
            /\ ~IsNone(p.assignments)
            /\ DOMAIN d = CurrentIds \cup resolved
            /\ \A u \in resolved : d[u] = TRUE
            /\ \A u \in CurrentIds \ resolved : d[u] = FALSE

\* current {X, Y}, Alice resolving to Z: {X: null, Y: null, Z: marker}
C10_Witness ==
    /\ op = "update_task"
    /\ args.assignees = Some(<<Alice>>)
    /\ pc = "done"
    /\ result.val.success
    /\ CurrentIds = {"X", "Y"}
    /\ loc.resolved_ids = <<"Z">>
    /\ \E p \in SentPatches :
          p.assignments = Some([u \in {"X", "Y", "Z"} |-> u = "Z"])

----------------------------------------------------------------------------
(* Properties of resolve_bucket_id *)

\* absent, empty or whitespace-only
BlankValue(v) == IsNone(v) \/ \A i \in 1..Len(Val(v)) : Val(v)[i] \in {" ", "\t"}

\* C6: resolve_bucket_id called with an absent, empty or whitespace-only value has
\* returned the failure "Bucket value is empty" without any network call: no token
\* acquisition, no request, no plan or bucket listing begun.
C6_BlankBucketNoNetwork ==
    (op = "resolve_bucket_id" /\ BlankValue(args.bucket_value)) =>
        /\ pc = "done"
        /\ result = Result(Failure("Bucket value is empty"))
        /\ ~netUsed
        /\ tr = <<>>
        /\ ex.pc = "idle"
        /\ pl = IdlePl
        /\ issued = access_token

C6_Witness ==
    /\ op = "resolve_bucket_id"
    /\ args.bucket_value = Some(<<"\t", " ">>)
    /\ pc = "done"

----------------------------------------------------------------------------
(* Properties of get_plan_tasks *)

\* get_plan_tasks has returned a snapshot built from a task listing.
SnapshotBuilt ==
    /\ op = "get_plan_tasks"
    /\ pc = "done"
    /\ loc # NoLoc
    /\ loc.listed

\* percent_complete < 100, a task without the field counting as 0
ClaimedOpen(task) == IsNone(task.pct) \/ Val(task.pct) < 100

ExpectedOpen == SelectSeq(loc.all_tasks, ClaimedOpen)

RECURSIVE AssignedIds(_)
\* the user IDs of the non-null assignments
AssignedIds(a) ==
    IF a = <<>> THEN <<>>
    ELSE (IF Head(a).assigned THEN <<Head(a).uid>> ELSE <<>>) \o AssignedIds(Tail(a))

\* The tasks of the snapshot are the open tasks of the listing, in its order, with one
\* assignee entry per non-null assignment, and total_open counts them.
SnapshotHasOpenTasks ==
    LET snap == result.val IN
    /\ result.k = "ok"
    /\ IsNone(snap.error)
    /\ Len(snap.open_tasks) = Len(ExpectedOpen)
    /\ snap.total_open = Len(snap.open_tasks)
    /\ \A i \in 1..Len(ExpectedOpen) :
          /\ snap.open_tasks[i].id = ExpectedOpen[i].id
          /\ Len(snap.open_tasks[i].assignees) = Len(AssignedIds(ExpectedOpen[i].assignments))
    /\ \A i \in 1..Len(snap.open_tasks) : snap.open_tasks[i].percentComplete < 100

RECURSIVE AllAssignees(_)
\* the assignee entries of the snapshot's tasks, in order
AllAssignees(open_tasks) ==
    IF open_tasks = <<>> THEN <<>>
    ELSE Head(open_tasks).assignees \o AllAssignees(Tail(open_tasks))

RECURSIVE AllAssignedIds(_)
AllAssignedIds(tasks) ==
    IF tasks = <<>> THEN <<>>
    ELSE AssignedIds(Head(tasks).assignments) \o AllAssignedIds(Tail(tasks))

\* C7 as stated: the snapshot holds exactly the open tasks, in order, and every assignee
\* entry is the display name of the assigned user.
C7_Original ==
    SnapshotBuilt =>
        /\ SnapshotHasOpenTasks
        /\ LET names == AllAssignees(result.val.open_tasks) IN
           /\ Len(names) = Len(loc.answers)
           /\ \A k \in 1..Len(names) :
                 /\ ~IsNone(loc.answers[k].name)
                 /\ names[k] = Val(loc.answers[k].name)

\* C7, amended: the snapshot holds exactly the open tasks, in order, with total_open
\* their number; each task has one assignee entry per non-null assignment, in order: the
\* display name the user lookup returned, or the user ID itself when the lookup failed
\* or returned no displayName.
C7_OpenTasksWithNamesOrIds ==
    SnapshotBuilt =>
        /\ SnapshotHasOpenTasks
        /\ LET names == AllAssignees(result.val.open_tasks)
               ids == AllAssignedIds(ExpectedOpen)
           IN
           /\ Len(names) = Len(ids)
           /\ Len(loc.answers) = Len(ids)
           /\ \A k \in 1..Len(ids) :
                 /\ loc.answers[k].uid = ids[k]
                 /\ names[k] = IF IsNone(loc.answers[k].name)
                               THEN ids[k]
                               ELSE Val(loc.answers[k].name)

\* an open task, a completed one left out, a name resolved and an ID kept
C7_Witness ==
    /\ SnapshotBuilt
    /\ Len(loc.all_tasks) = 2
    /\ loc.all_tasks[1].id = "t2"
    /\ loc.all_tasks[2].id = "t3"
    /\ result.val.total_open = 1
    /\ result.val.open_tasks[1].assignees = <<"Xavier", "Z">>

GetPlanTasksDone == op = "get_plan_tasks" /\ pc = "done"

EmptyWithError(snap) ==
    /\ snap.open_tasks = <<>>
    /\ snap.total_open = 0
    /\ ~IsNone(snap.error)

\* The plan was resolved but its task listing failed.
TaskListingFailed == loc # NoLoc /\ ~loc.listed

\* C8 as stated: get_plan_tasks never raises, and any failure while listing groups,
\* plans or tasks, or the plan not being found, gives the empty snapshot with an error.
C8_Original ==
    GetPlanTasksDone =>
        /\ result.k = "ok"
        /\ (pl.failed # {} \/ IsNone(result.val.plan_id) \/ TaskListingFailed)
              => EmptyWithError(result.val)

\* C8, amended: get_plan_tasks never raises; when the plan is not resolved (not among
\* the plans that could be listed) or the task listing fails it returns the empty
\* snapshot with an error string, and otherwise a snapshot without error, also when the
\* plan listing of another group failed and was skipped.
C8_NeverRaises ==
    GetPlanTasksDone =>
        /\ result.k = "ok"
        /\ (IsNone(result.val.plan_id) \/ TaskListingFailed) => EmptyWithError(result.val)
        /\ "groups" \in pl.failed => IsNone(result.val.plan_id)
        /\ ~(IsNone(result.val.plan_id) \/ TaskListingFailed) =>
              /\ IsNone(result.val.error)
              /\ result.val.total_open = Len(result.val.open_tasks)

\* authentication fails while the tasks are listed
C8_Witness ==
    /\ GetPlanTasksDone
    /\ TaskListingFailed
    /\ ret = Raised("AuthError", 0)
    /\ EmptyWithError(result.val)

----------------------------------------------------------------------------
(* Properties of create_task *)

\* The POST requests create_task has sent.
SentPosts == SelectSeq(hist, LAMBDA h : h.m = "POST")

\* create_task has resolved every name of a non-empty list of assignees.
NamesResolved ==
    /\ op = "create_task"
    /\ pc \in {"post", "done"}
    /\ loc # NoLoc
    /\ ~IsNone(args.assignees)
    /\ Val(args.assignees) # <<>>

\* The IDs get_user_id_by_name returned for the names.
ResolvedSet(outcomes) ==
    {Val(outcomes[i]) : i \in {j \in 1..Len(outcomes) : ~IsNone(outcomes[j])}}

\* C11: once create_task has looked up every assignee name, whether or not each one
\* resolved, it goes on to the creation request: every POST it sends assigns exactly the
\* IDs returned for the names that resolved (no assignments key when none did), and the
\* call returns success = true whenever the creation request is answered 2xx, failing
\* only when that request itself fails.
C11_UnresolvedAssigneesSkipped ==
    NamesResolved =>
        /\ Len(loc.outcomes) = Len(Val(args.assignees))
        /\ \A i \in 1..Len(SentPosts) :
              LET a == SentPosts[i].json.assignments IN
              IF ResolvedSet(loc.outcomes) = {}
              THEN IsNone(a)
              ELSE /\ ~IsNone(a)
                   /\ DOMAIN Val(a) = ResolvedSet(loc.outcomes)
                   /\ \A u \in DOMAIN Val(a) : Val(a)[u]
        /\ pc = "done" =>
              /\ result.k = "ok"
              /\ result.val.success <=> ret.k = "ok"
              /\ result.val.success =>
                    SentPosts # <<>> /\ IsOk(SentPosts[Len(SentPosts)].st)

\* one name unresolved, two resolved to different users, and the call succeeds
C11_Witness ==
    /\ NamesResolved
    /\ pc = "done"
    /\ result.val.success
    /\ Len(loc.outcomes) = 2
    /\ loc.outcomes[1] = None
    /\ loc.outcomes[2] = Some("X")

----------------------------------------------------------------------------
(* Properties of resolve_bucket_id on the listed buckets *)

\* resolve_bucket_id has matched its value against a bucket listing.
BucketsMatched ==
    /\ op = "resolve_bucket_id"
    /\ pc = "done"
    /\ loc # NoLoc
    /\ "buckets" \in DOMAIN loc

\* the value as it is compared
Target == Lower(Strip(Val(args.bucket_value)))

\* the buckets whose ID, and whose name, equals the value regardless of case
IdHits == {i \in 1..Len(loc.buckets) : Lower(StripOpt(loc.buckets[i].id)) = Target}
NameHits == {i \in 1..Len(loc.buckets) : Lower(StripOpt(loc.buckets[i].name)) = Target}

\* C12: IDs are matched first and names second: when some bucket's ID equals the value
\* (case-insensitively) a bucket whose ID matches is returned; a bucket is returned on a
\* name match only when no bucket's ID matches; and when nothing matches the result is
\* a failure that enumerates the listed buckets.
C12_IdsFirstThenNames ==
    BucketsMatched =>
        LET r == result.val IN
        /\ result.k = "ok"
        /\ IdHits # {} =>
              /\ r.success
              /\ \E i \in IdHits : r.bucket_id = StripOpt(loc.buckets[i].id)
        /\ (IdHits = {} /\ NameHits # {}) =>
              /\ r.success
              /\ \E i \in NameHits : r.bucket_id = StripOpt(loc.buckets[i].id)
        /\ (IdHits = {} /\ NameHits = {}) =>
              /\ ~r.success
              /\ r.available_buckets = loc.buckets

\* The second of two consecutive calls of resolve_bucket_id has returned.
SecondCallDone == op = "resolve_bucket_id" /\ pc = "done" /\ prev # <<>>

\* C13: against a server whose groups, plans and buckets do not change, the second of
\* two consecutive calls of resolve_bucket_id with the same arguments returns what the
\* first returned (the same outcome and the same bucket_id), whichever of their
\* requests are answered 401 and retried with a new token.
C13_ResolveTwiceSame ==
    SecondCallDone =>
        /\ prev[1].args = args
        /\ result = prev[1].result

\* the first call ran without a token refresh, the second with refreshes
C13_Witness ==
    /\ SecondCallDone
    /\ prev[1].token = 1
    /\ access_token = 3
    /\ result.k = "ok"
    /\ result.val.success
    /\ result.val.bucket_id = <<"b">>

----------------------------------------------------------------------------
(* Properties of get_user_id_by_name *)

\* get_user_id_by_name has just returned to create_task or update_task, having looked
\* the name up.
UserLookupReturned ==
    /\ op \in {"create_task", "update_task"}
    /\ pc = "names"
    /\ gu.pc = "idle"
    /\ ex.pc = "idle"
    /\ gu.log # <<>>

\* the strategies in the order of the claim
StrategyOrder ==
    << "direct", "userPrincipalName eq", "mail eq", "mailNickname eq", "displayName eq",
       "startswith(mailNickname" >>

\* C14: when get_user_id_by_name returns, the lookups it made are an initial part of
\* the strategy order (direct, principal name, mail, mail-nickname, display name, prefix
\* of mail-nickname), each one but the last having given nothing or failed; if the last
\* one gave a match the user's ID is returned, otherwise all six were made and None is
\* returned; it never raises.
C14_StrategiesInOrder ==
    /\ (op \in {"create_task", "update_task"} /\ pc = "names" /\ gu.pc = "idle"
           /\ ex.pc = "idle") => ret.k = "ok"
    /\ UserLookupReturned =>
          LET n == Len(gu.log) IN
          /\ n <= Len(StrategyOrder)
          /\ \A j \in 1..n : gu.log[j].strategy = StrategyOrder[j]
          /\ \A j \in 1..(n - 1) : gu.log[j].ans \in {"empty", "error"}
          /\ IF gu.log[n].ans = "match"
             THEN ~IsNone(ret.val) /\ Val(ret.val) \in UserIds
             ELSE n = Len(StrategyOrder) /\ IsNone(ret.val)

\* two strategies failed, one gave nothing, the fourth gave a user
C14_Witness ==
    /\ UserLookupReturned
    /\ Len(gu.log) = 4
    /\ gu.log[1].ans = "error"
    /\ gu.log[2].ans = "error"
    /\ gu.log[3].ans = "empty"
    /\ gu.log[4].ans = "match"
    /\ ret.val = Some("Z")

----------------------------------------------------------------------------
(* Properties of get_plan_by_name *)

\* get_plan_by_name has just returned to resolve_bucket_id.
PlanLookupReturned ==
    /\ op = "resolve_bucket_id"
    /\ pc = "plan"
    /\ pl.pc = "idle"
    /\ ex.pc = "idle"

\* The groups the server lists (none when it refuses the listing).
ListedGroups == server.groups.value

\* The places <<group, plan>> of the plans titled as requested, in the groups whose
\* plans the server lists.
TitledPlaces(plan_name) ==
    {p \in (1..Len(ListedGroups)) \X (1..2) :
        LET l == server.plans[ListedGroups[p[1]].id] IN
        /\ l.ok
        /\ p[2] <= Len(l.value)
        /\ l.value[p[2]].title = plan_name}

\* groups-listing order, then the order of the group's plans
PlaceBefore(p, q) == p[1] < q[1] \/ (p[1] = q[1] /\ p[2] <= q[2])

\* C15: against a server with fixed listings, get_plan_by_name returns the first plan,
\* in groups-listing order and then in the order of the group's plans, whose title is
\* exactly the requested one, also when the plan listing of another group is refused,
\* and returns None, without raising, when no listed plan has that title.
C15_FirstExactTitle ==
    PlanLookupReturned =>
        /\ ret.k = "ok"
        /\ IF TitledPlaces(args.plan_name) = {}
           THEN IsNone(ret.val)
           ELSE LET first == CHOOSE p \in TitledPlaces(args.plan_name) :
                                \A q \in TitledPlaces(args.plan_name) : PlaceBefore(p, q)
                    group == ListedGroups[first[1]]
                    plan == server.plans[group.id].value[first[2]]
                IN
                /\ ~IsNone(ret.val)
                /\ Val(ret.val).id = plan.id
                /\ Val(ret.val).title = args.plan_name
                /\ Val(ret.val).group_name = group.displayName

\* the first group's listing is refused, the second group's second plan is the one
C15_Witness ==
    /\ PlanLookupReturned
    /\ Len(ListedGroups) = 2
    /\ ~server.plans["g1"].ok
    /\ "plans" \in pl.failed
    /\ ret.k = "ok"
    /\ ~IsNone(ret.val)
    /\ Val(ret.val).id = "p2"

----------------------------------------------------------------------------
(* Properties of the write operations' results *)

WriteDone == op \in WriteOps /\ pc = "done"

\* The last request the operation itself sent was not answered 2xx.
LastRequestFailed ==
    /\ hist # <<>>
    /\ (hist[Len(hist)].net = "fail" \/ ~IsOk(hist[Len(hist)].st))

\* C16: create_task, update_task and delete_task never raise: whatever the server and
\* the identity provider answer, the call ends by returning a dictionary with success;
\* when a request of the operation ended in an error status (a second 401 included), a
\* transport error or an authentication failure, success is false and an error text is
\* given; and success is true only after a write answered 2xx.
C16_WritesReturnFailure ==
    WriteDone =>
        /\ result.k = "ok"
        /\ "success" \in DOMAIN result.val
        /\ (ret.k = "exc" \/ LastRequestFailed) =>
              /\ ~result.val.success
              /\ "error" \in DOMAIN result.val
        /\ result.val.success =>
              /\ hist # <<>>
              /\ hist[Len(hist)].m \in {"POST", "PATCH", "DELETE"}
              /\ IsOk(hist[Len(hist)].st)

\* authentication fails for the retry of the PATCH
C16_Witness ==
    /\ WriteDone
    /\ op = "update_task"
    /\ hist # <<>>
    /\ hist[Len(hist)].m = "PATCH"
    /\ hist[Len(hist)].st = 401
    /\ ret = Raised("AuthError", 0)
    /\ ~result.val.success

----------------------------------------------------------------------------
(* Properties of concurrent writes *)

\* Both calls have read the task and got the same ETag.
SameRead == wr[1].etag # 0 /\ wr[1].etag = wr[2].etag

Accepted(w) == \E i \in 1..Len(server.accepted) : server.accepted[i].w = w

\* C17: of two concurrent calls of update_task or delete_task that read the same ETag
\* of a task, the server accepts the write of at most one; a call returns success
\* exactly when its write was accepted, so the other returns success = false; neither
\* reads the task again nor sends a write with another If-Match than the ETag it read
\* (a second write only after a 401); and every write the server accepts comes from a
\* call whose read saw the task as it is when the write arrives.
C17_OneWriterWins ==
    /\ \A i \in 1..Len(server.accepted) :
          /\ server.accepted[i].seen = server.accepted[i].at
          /\ server.accepted[i].ifm = server.accepted[i].at
    /\ SameRead =>
          /\ Len(server.accepted) <= 1
          /\ \A w \in Writers :
                /\ wr[w].reads = 1
                /\ Len(wr[w].writes) <= 2
                /\ (Len(wr[w].writes) = 2 => wr[w].writes[1].st = 401)
                /\ \A i \in 1..Len(wr[w].writes) : wr[w].writes[i].ifm = wr[w].etag
                /\ wr[w].pc = "done" =>
                      /\ wr[w].result.k = "ok"
                      /\ wr[w].result.val.success <=> Accepted(w)
          /\ (\A w \in Writers : wr[w].pc = "done") =>
                \E w \in Writers : ~wr[w].result.val.success

\* both updates read ETag 1; the first is accepted, the second is refused with 412
C17_Witness ==
    /\ SameRead
    /\ \A w \in Writers : wr[w].pc = "done" /\ wr[w].kind = "update_task"
    /\ wr[1].result.val.success
    /\ ~wr[2].result.val.success
    /\ wr[2].writes = <<[ifm |-> 1, st |-> 412]>>

----------------------------------------------------------------------------
(* Properties of the creation request *)

\* The POST requests the server may have carried out: those not answered with an error
\* status.
PostsCarriedOut == SelectSeq(SentPosts, LAMBDA h : h.net = "fail" \/ IsOk(h.st))

\* C18: create_task sends no POST until the plan is resolved, and none at all when it
\* is not; it sends at most two, the second only after the first was answered 401; at
\* most one of them is not refused by the server, so at most one task is created; and
\* when it returns success exactly one POST was answered 2xx, the last one.
C18_SingleCreation ==
    op = "create_task" =>
        /\ (loc = NoLoc => SentPosts = <<>>)
        /\ Len(hist) = Len(SentPosts)
        /\ Len(SentPosts) <= 2
        /\ (Len(SentPosts) = 2 => SentPosts[1].net = "ok" /\ SentPosts[1].st = 401)
        /\ Len(PostsCarriedOut) <= 1
        /\ (pc = "done" /\ result.k = "ok" /\ result.val.success) =>
              /\ Len(SelectSeq(SentPosts, LAMBDA h : IsOk(h.st))) = 1
              /\ IsOk(SentPosts[Len(SentPosts)].st)
        /\ \A i \in 1..Len(SentPosts) : SentPosts[i].json = loc.task_data

\* the first POST is answered 401, the second creates the task
C18_Witness ==
    /\ op = "create_task"
    /\ pc = "done"
    /\ result.val.success
    /\ Len(SentPosts) = 2
    /\ SentPosts[1].st = 401

----------------------------------------------------------------------------
(* Properties of a refused conditional write *)

Reads == SelectSeq(hist, LAMBDA h : h.m = "GET")
Writes == SelectSeq(hist, IsWrite)

\* a write was answered with an error status other than 401
WriteRefused == \E i \in 1..Len(hist) :
    IsWrite(hist[i]) /\ hist[i].net = "ok" /\ hist[i].st >= 400 /\ hist[i].st # 401

\* C20: update_task and delete_task read the task once (a second GET only after a 401,
\* none after a write) and send the conditional write at most twice, the second time
\* only after a 401 and with the same If-Match, the ETag of the read; a write answered
\* with another error status is the last request of the call, which returns success =
\* false.
C20_RefusedWriteNotRetried ==
    op \in {"update_task", "delete_task"} =>
        /\ Len(Reads) <= 2
        /\ (Len(Reads) = 2 => Reads[1].net = "ok" /\ Reads[1].st = 401)
        /\ Len(Writes) <= 2
        /\ (Len(Writes) = 2 =>
              /\ Writes[1].net = "ok" /\ Writes[1].st = 401
              /\ Writes[2].ifm = Writes[1].ifm)
        /\ hist = Reads \o Writes
        /\ \A i \in 1..Len(Writes) :
              /\ Writes[i].ifm # 0
              /\ Writes[i].ifm = ETagOf([h |-> Reads[Len(Reads)].etags[1],
                                         b |-> Reads[Len(Reads)].etags[2]])
        /\ WriteRefused =>
              /\ ~IsOk(hist[Len(hist)].st)
              /\ hist[Len(hist)].st # 401
              /\ IsWrite(hist[Len(hist)])
              /\ pc \in {"patch", "delete", "done"}
              /\ ex.pc = "idle"
              /\ pc = "done" => result.k = "ok" /\ ~result.val.success

\* the PATCH is answered 401, sent again with the same If-Match and answered 412
C20_Witness ==
    /\ op = "update_task"
    /\ pc = "done"
    /\ Len(Writes) = 2
    /\ Writes[1].st = 401
    /\ Writes[2].st = 412
    /\ Writes[2].ifm = 2
    /\ Len(Reads) = 1
    /\ ~result.val.success

----------------------------------------------------------------------------
(* Properties of the configuration flow *)

FlowDone == op = "config_flow" /\ pc = "done"

\* C19: the configuration flow ends by creating an entry only when authenticate() has
\* succeeded and get_plan_by_name has returned a plan titled as the user asked; when
\* authenticate() fails it shows the form with the error invalid_auth, and when the
\* plan is not found (its listing failing or not) it shows the form with the error
\* cannot_connect, creating no entry in either case.
C19_EntryOnlyAfterValidation ==
    FlowDone =>
        /\ result.k = "ok"
        /\ result.val.type = "create_entry" =>
              /\ loc.auth = "ok"
              /\ ~IsNone(loc.plan)
              /\ Val(loc.plan).title = Val(args.user_input).plan_name
              /\ result.val.data = Val(args.user_input)
        /\ loc.auth = "failed" => result.val = ShowForm(Some("invalid_auth"))
        /\ (loc.auth = "ok" /\ IsNone(loc.plan)) =>
              result.val = ShowForm(Some("cannot_connect"))
        /\ (~IsNone(args.user_input) /\ result.val.type = "form") =>
              result.val.errors \in {Some("invalid_auth"), Some("cannot_connect")}

\* the groups listing was refused, so the plan was not found
C19_Witness ==
    /\ FlowDone
    /\ loc.auth = "ok"
    /\ "groups" \in pl.failed
    /\ result.val = ShowForm(Some("cannot_connect"))

----------------------------------------------------------------------------
(* Properties of the error statuses *)

\* a response with a status that is neither 2xx nor 401
ErrorStatus(ev) == ev.e = "send" /\ ev.st # 0 /\ ~IsOk(ev.st) /\ ev.st # 401

\* this step sends a request and handles its response
Sending == Len(tr') = Len(tr) + 1 /\ SubSeq(tr', 1, Len(tr)) = tr /\ tr'[Len(tr')].e = "send"

\* C21: the step that receives a response whose status is neither 2xx nor 401 ends the
\* logical request with the HTTP error of that status and leaves the cached token as it
\* is, acquiring no token; after such a response nothing more is sent and authenticate()
\* is not called for this request; and the cached token changes only in a step that
\* receives a 401 or one that starts with no token cached.
C21_OtherErrorsSurfaceAtOnce ==
    [][ /\ (Sending /\ ErrorStatus(tr'[Len(tr')])) =>
              /\ ex'.pc = "idle"
              /\ ret' = Raised("HTTPError", tr'[Len(tr')].st)
              /\ access_token' = access_token
              /\ issued' = issued
        /\ (tr # <<>> /\ ErrorStatus(tr[Len(tr)])) =>
              ~(Len(tr') > Len(tr) /\ SubSeq(tr', 1, Len(tr)) = tr)
        /\ access_token' # access_token =>
              \/ access_token = 0
              \/ Sending /\ tr'[Len(tr')].st = 401
      ]_vars

\* delete_task has ended on a 412 of its DELETE
C21_Witness ==
    /\ op = "delete_task"
    /\ pc = "done"
    /\ tr # <<>>
    /\ ErrorStatus(tr[Len(tr)])
    /\ tr[Len(tr)].m = "DELETE"
    /\ tr[Len(tr)].st = 412
    /\ access_token # 0

----------------------------------------------------------------------------
(* Properties of the bearer token *)

\* this step is an authenticate() that fails
AuthFailing ==
    /\ Len(tr') = Len(tr) + 1
    /\ SubSeq(tr', 1, Len(tr)) = tr
    /\ tr'[Len(tr')].e = "auth"
    /\ ~tr'[Len(tr')].ok

\* C22: every step that sends a request starts with a token cached, and the request
\* carries that token, which is one a successful authenticate() stored; a step in which
\* authenticate() fails ends the logical request with an exception and leaves no token
\* cached, and nothing is sent for that request afterwards.
C22_RequestsCarryCachedToken ==
    [][ /\ Sending =>
              /\ access_token # 0
              /\ tr'[Len(tr')].tok = access_token
              /\ tr'[Len(tr')].tok \in 1..issued
        /\ AuthFailing =>
              /\ access_token = 0
              /\ access_token' = 0
              /\ ex'.pc = "idle"
              /\ ret' = Raised("AuthError", 0)
        /\ (tr # <<>> /\ tr[Len(tr)].e = "auth" /\ ~tr[Len(tr)].ok) =>
              ~(Len(tr') > Len(tr) /\ SubSeq(tr', 1, Len(tr)) = tr)
      ]_vars

\* update_task has sent its PATCH a second time, with the token acquired after the 401
C22_Witness ==
    /\ op = "update_task"
    /\ pc = "done"
    /\ Len(tr) = 3
    /\ tr[1].e = "send" /\ tr[1].m = "PATCH" /\ tr[1].st = 401
    /\ tr[2] = AuthEv(TRUE, "401")
    /\ tr[3].e = "send" /\ tr[3].tok = access_token /\ tr[3].tok # tr[1].tok

----------------------------------------------------------------------------
(* Properties of the patch of update_task *)

\* the keys the arguments of a call ask to be written
SuppliedKeys(a) ==
    (IF IsNone(a.title) THEN {} ELSE {"title"})
    \cup (IF IsNone(a.due_date) THEN {} ELSE {"dueDateTime"})
    \cup (IF IsNone(a.bucket_id) THEN {} ELSE {"bucketId"})
    \cup (IF IsNone(a.assignees) THEN {} ELSE {"assignments"})
    \cup (IF IsNone(a.percent_complete) /\ IsNone(a.completed) THEN {} ELSE {"percentComplete"})

\* C23: every patch update_task sends has exactly the keys whose arguments were
\* supplied (percentComplete for percent_complete or completed), and the updated_fields
\* of a successful result are exactly the keys of the patch that was sent.
C23_SparsePatch ==
    op = "update_task" =>
        /\ \A p \in SentPatches : PayloadKeys(p) = SuppliedKeys(args)
        /\ (pc = "done" /\ result.k = "ok" /\ result.val.success) =>
              /\ SentPatches # {}
              /\ \A p \in SentPatches : result.val.updated_fields = PayloadKeys(p)

\* a title and completed = false were supplied, and nothing else
C23_Witness ==
    /\ op = "update_task"
    /\ pc = "done"
    /\ result.k = "ok"
    /\ result.val.success
    /\ SuppliedKeys(args) = {"title", "percentComplete"}
    /\ result.val.updated_fields = {"title", "percentComplete"}
    /\ \E p \in SentPatches : IsNone(p.assignments) /\ IsNone(p.bucketId) /\ IsNone(p.dueDateTime)

----------------------------------------------------------------------------
(* Properties of the handlers *)

\* the write operation the handler called has returned success
WriteSucceeded ==
    /\ op \in WriteOps
    /\ pc = "done"
    /\ result.k = "ok"
    /\ result.val.success

HandlerEnded == hd.pc \in {"returned", "raised"}

\* C24: a handler (the services create_task and update_task, the todo entity's create,
\* update and delete) requests a coordinator refresh at most once and only after its
\* write operation has returned success; it has requested the refresh when it returns
\* after a successful write; and it has requested none when it ends without a write or
\* after a failed one.
C24_RefreshAfterSuccessfulWrite ==
    /\ hd.refreshes \in {0, 1}
    /\ hd.refreshes = 1 => HandlerEnded /\ WriteSucceeded
    /\ (HandlerEnded /\ WriteSucceeded) => hd.refreshes = 1
    /\ (HandlerEnded /\ ~WriteSucceeded) => hd.refreshes = 0

\* handle_update_task has looked the bucket up, updated the task and asked for a refresh
C24_Witness ==
    /\ hd.name = "handle_update_task"
    /\ hd.pc = "returned"
    /\ hd.input.bucket = Some(<<"b">>)
    /\ IsNone(hd.input.bucket_id)
    /\ WriteSucceeded
    /\ hd.refreshes = 1
    /\ \E i \in 1..Len(hist) : hist[i].m = "PATCH" /\ IsOk(hist[i].st)

----------------------------------------------------------------------------
(* Properties of the todo entity's update *)

TodoUpdating == hd.name = "async_update_todo_item" /\ hd.pc # "idle"

\* C26: async_update_todo_item calls update_task, if at all, with completed a boolean
\* that is true exactly for an item whose status is COMPLETED, and with neither
\* assignees nor a bucket; every patch sent for it sets percentComplete, to 100 for a
\* completed item and to 0 for any other, whatever percentComplete the task had, and
\* has no assignments and no bucketId.
C26_TodoUpdateWritesPercent ==
    TodoUpdating =>
        /\ hd.pc = "write" =>
              /\ op = "update_task"
              /\ args.completed = Some(hd.input.status = "completed")
              /\ IsNone(args.assignees)
              /\ IsNone(args.bucket_id)
              /\ IsNone(args.percent_complete)
        /\ \A p \in SentPatches :
              /\ p.percentComplete = Some(IF hd.input.status = "completed" THEN 100 ELSE 0)
              /\ IsNone(p.assignments)
              /\ IsNone(p.bucketId)
        /\ (hd.pc = "returned" /\ ~IsNone(hd.input.uid) /\ hd.returned.success) =>
              "percentComplete" \in hd.returned.updated_fields

\* the title of a task that was half done is edited: percentComplete is written as 0
C26_Witness ==
    /\ TodoUpdating
    /\ hd.pc = "returned"
    /\ hd.input.was = 50
    /\ hd.input.status = "needs_action"
    /\ hd.input.summary = Some("t")
    /\ IsNone(hd.input.due)
    /\ hd.refreshes = 1
    /\ \E p \in SentPatches : p.percentComplete = Some(0) /\ p.title = Some("t")

----------------------------------------------------------------------------
(* Properties of the user lookups of get_plan_tasks *)

\* the user IDs of the non-null assignments of the open tasks, each once
DistinctAssignedIds == SeqToSet(AllAssignedIds(ExpectedOpen))

\* the calls of get_user_display_name made for the snapshot
UserLookups == Len(loc.answers)

\* C25 as stated: the number of user lookups made for a snapshot is the number of
\* distinct non-null assigned user IDs among the open tasks.
C25_Original == SnapshotBuilt => UserLookups = Cardinality(DistinctAssignedIds)

\* C25, amended: get_plan_tasks issues one user lookup per non-null assignment of each
\* open task, in the order of the tasks and of their assignments: a user ID that is
\* assigned to several open tasks is looked up once for each of them, so the number of
\* user lookups equals the number of non-null assignments among the open tasks.
C25_LookupPerAssignment ==
    SnapshotBuilt =>
        LET ids == AllAssignedIds(ExpectedOpen) IN
        /\ UserLookups = Len(ids)
        /\ \A k \in 1..Len(ids) : loc.answers[k].uid = ids[k]
        /\ UserLookups >= Cardinality(DistinctAssignedIds)

\* user X is assigned to two open tasks and is looked up twice
C25_Witness ==
    /\ SnapshotBuilt
    /\ Len(ExpectedOpen) = 2
    /\ Cardinality(DistinctAssignedIds) = 1
    /\ UserLookups = 2
    /\ loc.answers[1].uid = loc.answers[2].uid

====
